---- MODULE Spec2Model ----
(***************************************************************************)
(* A model of three parts of LibAFL:                                       *)
(*   - the shadow-memory allocator of libafl_frida (alloc.rs),             *)
(*   - the byte mutators of libafl (mutations.rs),                         *)
(*   - the token and input-to-state mutators (token_mutations.rs).         *)
(* Each part has its own specification over the shared variables.          *)
(***************************************************************************)
EXTENDS Integers, Sequences, FiniteSets, TLC

VARIABLES
    options,                \* FridaOptions read by the allocator
    pre_allocated_shadow,   \* Allocator.pre_allocated_shadow
    allocations,            \* Allocator.allocations: user pointer -> metadata
    shadow_pages,           \* Allocator.shadow_pages: shadow addresses mapped lazily
    allocation_queue,       \* Allocator.allocation_queue: rounded size -> list
    largest_allocation,     \* Allocator.largest_allocation
    total_allocation_size,  \* Allocator.total_allocation_size
    current_mapping_addr,   \* Allocator.current_mapping_addr
    shadow,                 \* the bytes of the shadow region
    last,                   \* the last allocator call: what was asked, what came back
    e4,                     \* progress through alloc; alloc; release; reset; alloc
    shadow_query,           \* the last map_to_shadow query and its answers
    input,                  \* BytesInput.bytes of the input being mutated
    max_size,               \* StdState.max_size
    corpus,                 \* the inputs of the testcases of state.corpus(), by index
    current,                \* corpus.current()
    tokens,                 \* the Tokens metadata of the state, if any
    cmps,                   \* CmpValuesMetadata.list of the state, if any
    mutation,               \* the last call of mutate: the mutator and what it returned
    token_vec,              \* Tokens.token_vec of the Tokens value under construction
    token_call,             \* the last call on the Tokens value: what was asked, what came back
    driver,                 \* the fuzzer binary: where main and fuzz are, what came back
    find_query              \* the last find_metadata query and its answer

alloc_vars == <<options, pre_allocated_shadow, allocations, shadow_pages,
                allocation_queue, largest_allocation, total_allocation_size,
                current_mapping_addr, shadow, last, e4>>

mut_vars == <<input, max_size, corpus, current, tokens, cmps, mutation>>

tok_vars == <<token_vec, token_call>>

drv_vars == <<driver>>

find_vars == <<find_query>>

vars == <<alloc_vars, shadow_query, mut_vars, tok_vars, drv_vars, find_vars>>

(***************************************************************************)
(* Bounds of the model.  The real shadow bit (44) and page size (4096) do  *)
(* not fit the integers of the model checker; the layout is kept and the   *)
(* sizes are scaled down.                                                  *)
(***************************************************************************)
shadow_bit == 5
page_size == 8
\* bytes of address space above base_mapping_addr in which mmap can succeed
MaxMappingBytes == 56
\* the sizes a caller asks for: 0, and three sizes in different size classes
SmallReq == 3
MidReq == 9
BigReq == 17
\* the choices of asan_max_allocation and asan_max_total_allocation
LowMaxAllocation == 9
HighMaxAllocation == 16
MaxTotal == 64
\* a total that is reached before the mapping space is used up
LowMaxTotal == 40
\* the call sites of alloc and of release a backtrace can be captured at
MaxAllocSites == 1
MaxReleaseSites == 2
\* the addresses map_to_shadow is queried at, beyond the wrap of its mask
ProbeSlack == 24

\* alloc.rs:222, the size a zero-sized allocation gets
MallocZeroSize == 16

None == {}
Some(x) == {x}
Unwrap(o) == CHOOSE x \in o : TRUE

RECURSIVE Pow2(_)
Pow2(n) == IF n = 0 THEN 1 ELSE 2 * Pow2(n - 1)

Min(S) == CHOOSE x \in S : \A y \in S : x <= y
Max(a, b) == IF a >= b THEN a ELSE b

AllocSites == 1..MaxAllocSites
ReleaseSites == 1..MaxReleaseSites
ReqSizes == {0, SmallReq, MidReq, BigReq}

shadow_offset == Pow2(shadow_bit)
base_mapping_addr == shadow_offset + shadow_offset + shadow_offset
AddrSpaceEnd == base_mapping_addr + MaxMappingBytes
ShadowAddrs == shadow_offset..(base_mapping_addr - 1)

\* x & ((1 << k) - 1)
LowBits(x, k) == x % Pow2(k)

\* a mapping that shifts by 2 where the macro shifts by 3
map_to_shadow_shift2(address) ==
    shadow_offset + LowBits(address \div 4, shadow_bit + 1)

map_to_shadow(address) ==
    shadow_offset + LowBits(address \div 8, shadow_bit + 1)

round_up_to_page(size) == ((size + page_size) \div page_size) * page_size
round_down_to_page(value) == (value \div page_size) * page_size

AllocationMetadataDefault ==
    [address |-> 0, size |-> 0, actual_size |-> 0,
     allocation_site_backtrace |-> None, release_site_backtrace |-> None,
     freed |-> FALSE, is_malloc_zero |-> FALSE]

(***************************************************************************)
(* The shadow bytes poison and unpoison write: size / 8 whole bytes and,   *)
(* when size % 8 > 0, one more byte.                                       *)
(***************************************************************************)
ShadowWritten(start, size) ==
    {a \in start..(start + size \div 8 - 1) : TRUE}
        \cup (IF (size % 8) > 0 THEN {start + size \div 8} ELSE {})

unpoison(sh, start, size) ==
    [a \in DOMAIN sh |->
        IF a >= start /\ a < start + size \div 8 THEN 255
        ELSE IF (size % 8) > 0 /\ a = start + size \div 8
             THEN (255 * Pow2(8 - (size % 8))) % 256
             ELSE sh[a]]

\* a poison without the partial last byte
poison_whole_bytes_only(sh, start, size) ==
    [a \in DOMAIN sh |->
        IF a >= start /\ a < start + size \div 8 THEN 0 ELSE sh[a]]

poison(sh, start, size) ==
    [a \in DOMAIN sh |->
        IF a >= start /\ a < start + size \div 8 THEN 0
        ELSE IF (size % 8) > 0 /\ a = start + size \div 8 THEN 0
             ELSE sh[a]]

\* alloc.rs:127-146, the page new maps at 1 << shadow_bit to probe the shadow bit;
\* it stays mapped and is no part of shadow_pages
probe_page == shadow_offset..(shadow_offset + page_size - 1)

\* a write to the shadow faults when the shadow is mapped lazily and the page is not there
shadow_write_ok(pages, start, size) ==
    pre_allocated_shadow \/ ShadowWritten(start, size) \subseteq (pages \cup probe_page)

\* the shadow range map_shadow_for_region maps for the region [start, end)
shadow_range(start, end) ==
    LET shadow_start == round_down_to_page(map_to_shadow(start))
        shadow_end == round_up_to_page((end - start) \div 8) + page_size + shadow_start
    IN shadow_start..(shadow_end - 1)

\* the answers of the kernel to the mmap of a fresh region of len bytes at addr:
\* it can refuse at any address, and refuses every region that ends above
\* AddrSpaceEnd
mmap(addr, len) == IF addr + len <= AddrSpaceEnd THEN {"Ok", "Err"} ELSE {"Err"}

\* the answers of the kernel to the mmap of the gaps of the shadow range; no
\* gap, no call
mmap_gaps(gaps) == IF gaps = {} THEN {"Ok"} ELSE {"Ok", "Err"}

\* what a call that works on the shadow leaves: shadow_pages, the shadow bytes,
\* the value returned, and whether it panicked (or faulted)
ShadowOutcome(pages, sh, ret, panic) ==
    [pages |-> pages, shadow |-> sh, ret |-> ret, panic |-> panic]

\* Allocator::map_shadow_for_region(start, end, unpoison).  The pages mapped over
\* a gap are fresh: they read zero.
map_shadow_for_region(pages, sh, start, end, do_unpoison) ==
    LET shadow_mapping_start == map_to_shadow(start)
        gaps == IF pre_allocated_shadow THEN {} ELSE shadow_range(start, end) \ pages
        mapped == IF pre_allocated_shadow THEN pages ELSE pages \cup shadow_range(start, end)
        fresh == [a \in DOMAIN sh |-> IF a \in gaps THEN 0 ELSE sh[a]]
        ret == <<shadow_mapping_start, (end - start) \div 8>>
        done ==
            IF ~do_unpoison THEN ShadowOutcome(mapped, fresh, ret, FALSE)
            ELSE IF shadow_write_ok(mapped, shadow_mapping_start, end - start)
                 THEN ShadowOutcome(mapped, unpoison(fresh, shadow_mapping_start, end - start),
                                    ret, FALSE)
                 ELSE ShadowOutcome(mapped, fresh, <<0, 0>>, TRUE)
    IN {IF answer = "Ok" THEN done ELSE ShadowOutcome(pages, sh, <<0, 0>>, TRUE) :
            answer \in mmap_gaps(gaps)}

\* a search that passes over the lists of exactly the size asked for
find_smallest_fit_strict(queue, size) ==
    LET fits == {k \in DOMAIN queue : k > size /\ Len(queue[k]) > 0}
    IN IF fits = {} THEN None ELSE Some(Min(fits))

\* the key of the list find_smallest_fit pops from, if any
find_smallest_fit(queue, size) ==
    LET fits == {k \in DOMAIN queue : k >= size /\ Len(queue[k]) > 0}
    IN IF fits = {} THEN None ELSE Some(Min(fits))

alloc_too_large(size) == size > options.asan_max_allocation

\* a limit check that leaves out the size being allocated
alloc_over_total_without_size(rounded_up_size) ==
    total_allocation_size > options.asan_max_total_allocation

alloc_over_total(rounded_up_size) ==
    total_allocation_size + rounded_up_size > options.asan_max_total_allocation

\* the metadata alloc records for a chunk taken from the freelist
recycled_metadata(metadata, size, is_malloc_zero, site) ==
    [metadata EXCEPT
        !.is_malloc_zero = is_malloc_zero,
        !.size = size,
        !.allocation_site_backtrace =
            IF options.enable_asan_allocation_backtraces THEN Some(site) ELSE @]

\* a fresh chunk that is always placed at the start of the mapping space
fresh_metadata_at_base(mapping, size, rounded_up_size, is_malloc_zero, site) ==
    [AllocationMetadataDefault EXCEPT
        !.address = base_mapping_addr,
        !.size = size,
        !.actual_size = rounded_up_size,
        !.allocation_site_backtrace =
            IF options.enable_asan_allocation_backtraces THEN Some(site) ELSE @]

\* the metadata alloc records for a freshly mapped chunk
fresh_metadata(mapping, size, rounded_up_size, is_malloc_zero, site) ==
    [AllocationMetadataDefault EXCEPT
        !.address = mapping,
        !.size = size,
        !.actual_size = rounded_up_size,
        !.allocation_site_backtrace =
            IF options.enable_asan_allocation_backtraces THEN Some(site) ELSE @]

Insert(f, k, v) == [x \in DOMAIN f \cup {k} |-> IF x = k THEN v ELSE f[x]]

Call(op, arg, ret, err, panic, how) ==
    [op |-> op, arg |-> arg, ret |-> ret, err |-> err, panic |-> panic, how |-> how]

\* the scenario alloc(a); alloc(b); release(p1); reset(); alloc(a) from construction
E4Step(m, op, arg, ret) ==
    IF m.stage = 0 /\ op = "alloc" /\ ret # 0 THEN [stage |-> 1, p1 |-> ret, a |-> arg]
    ELSE IF m.stage = 1 /\ op = "alloc" THEN [m EXCEPT !.stage = 2]
    ELSE IF m.stage = 2 /\ op = "release" /\ arg = m.p1 THEN [m EXCEPT !.stage = 3]
    ELSE IF m.stage = 3 /\ op = "reset" THEN [m EXCEPT !.stage = 4]
    ELSE IF m.stage = 4 /\ op = "alloc" /\ arg = m.a THEN [m EXCEPT !.stage = 5]
    ELSE [stage |-> 6, p1 |-> 0, a |-> 0]

Alive == ~last.panic

(***************************************************************************)
(* Allocator::alloc(size, _alignment).  The mmap of a fresh region and the *)
(* mmap of its shadow pages are answered by the kernel: each can fail.     *)
(***************************************************************************)
Alloc(req, site) ==
    LET is_malloc_zero == (req = 0)
        size == IF req = 0 THEN MallocZeroSize ELSE req
        rounded_up_size == round_up_to_page(size) + 2 * page_size
        fit == find_smallest_fit(allocation_queue, rounded_up_size)
        mapping == current_mapping_addr
        \* the rest of alloc once it has the metadata, the shadow being sh over pages
        serve(metadata, pages, sh, how) ==
            LET address == metadata.address + page_size
            IN /\ shadow_pages' = pages
               /\ largest_allocation' = Max(largest_allocation, metadata.actual_size)
               /\ IF shadow_write_ok(pages, map_to_shadow(address), size) THEN
                       /\ shadow' = unpoison(sh, map_to_shadow(address), size)
                       /\ allocations' = Insert(allocations, address, metadata)
                       /\ last' = Call("alloc", req, address, "none", FALSE, how)
                       /\ e4' = E4Step(e4, "alloc", req, address)
                  ELSE
                       /\ shadow' = sh
                       /\ last' = Call("alloc", req, 0, "none", TRUE, "none")
                       /\ e4' = E4Step(e4, "alloc", req, 0)
                       /\ UNCHANGED allocations
    IN
    /\ Alive
    /\ IF alloc_too_large(size) THEN
            /\ last' = Call("alloc", req, 0, "none", options.asan_max_allocation_panics, "none")
            /\ e4' = E4Step(e4, "alloc", req, 0)
            /\ UNCHANGED <<options, pre_allocated_shadow, allocations, shadow_pages,
                           allocation_queue, largest_allocation, total_allocation_size,
                           current_mapping_addr, shadow>>
       ELSE IF alloc_over_total(rounded_up_size) THEN
            /\ last' = Call("alloc", req, 0, "none", FALSE, "none")
            /\ e4' = E4Step(e4, "alloc", req, 0)
            /\ UNCHANGED <<options, pre_allocated_shadow, allocations, shadow_pages,
                           allocation_queue, largest_allocation, total_allocation_size,
                           current_mapping_addr, shadow>>
       ELSE IF fit # None THEN
            /\ total_allocation_size' = total_allocation_size + rounded_up_size
            /\ allocation_queue' =
                 [allocation_queue EXCEPT ![Unwrap(fit)] = SubSeq(@, 1, Len(@) - 1)]
            /\ serve(recycled_metadata(
                        allocation_queue[Unwrap(fit)][Len(allocation_queue[Unwrap(fit)])],
                        size, is_malloc_zero, site),
                     shadow_pages, shadow, "recycled")
            /\ UNCHANGED <<options, pre_allocated_shadow, current_mapping_addr>>
       ELSE \E answer \in mmap(mapping, rounded_up_size) :
            IF answer = "Err" THEN
                \* mmap failed: the early return comes after the counter was raised
                /\ total_allocation_size' = total_allocation_size + rounded_up_size
                /\ last' = Call("alloc", req, 0, "none", FALSE, "none")
                /\ e4' = E4Step(e4, "alloc", req, 0)
                /\ UNCHANGED <<options, pre_allocated_shadow, allocations, shadow_pages,
                               allocation_queue, largest_allocation,
                               current_mapping_addr, shadow>>
            ELSE \E out \in map_shadow_for_region(shadow_pages, shadow, mapping,
                                                  mapping + rounded_up_size, FALSE) :
                /\ total_allocation_size' = total_allocation_size + rounded_up_size
                /\ current_mapping_addr' = current_mapping_addr + rounded_up_size
                /\ IF out.panic THEN
                        \* the mmap of a shadow page failed: expect panics
                        /\ last' = Call("alloc", req, 0, "none", TRUE, "none")
                        /\ e4' = E4Step(e4, "alloc", req, 0)
                        /\ UNCHANGED <<allocations, shadow_pages, largest_allocation, shadow>>
                   ELSE serve(fresh_metadata(mapping, size, rounded_up_size,
                                             is_malloc_zero, site),
                              out.pages, out.shadow, "fresh")
                /\ UNCHANGED <<options, pre_allocated_shadow, allocation_queue>>
    /\ UNCHANGED <<shadow_query, mut_vars, tok_vars, drv_vars, find_vars>>

\* a release that reports nothing for a pointer it does not know
release_error_unknown_silent(ptr) ==
    IF ptr \notin DOMAIN allocations
    THEN "none"
    ELSE (IF allocations[ptr].freed THEN "DoubleFree" ELSE "none")

\* the error release reports for ptr
release_error(ptr) ==
    IF ptr \notin DOMAIN allocations
    THEN (IF ptr # 0 THEN "UnallocatedFree" ELSE "none")
    ELSE (IF allocations[ptr].freed THEN "DoubleFree" ELSE "none")

\* the metadata release leaves for an allocation of the table
released_metadata(metadata, site) ==
    [metadata EXCEPT
        !.freed = TRUE,
        !.release_site_backtrace =
            IF options.enable_asan_allocation_backtraces THEN Some(site) ELSE @]

(***************************************************************************)
(* Allocator::release(ptr)                                                 *)
(***************************************************************************)
Release(ptr, site) ==
    /\ Alive
    /\ e4' = E4Step(e4, "release", ptr, 0)
    /\ IF ptr \notin DOMAIN allocations THEN
            /\ last' = Call("release", ptr, 0, release_error(ptr), FALSE, "none")
            /\ UNCHANGED <<allocations, shadow>>
       ELSE IF shadow_write_ok(shadow_pages, map_to_shadow(ptr), allocations[ptr].size) THEN
            /\ last' = Call("release", ptr, 0, release_error(ptr), FALSE, "none")
            /\ allocations' = [allocations EXCEPT ![ptr] = released_metadata(@, site)]
            /\ shadow' = poison(shadow, map_to_shadow(ptr), allocations[ptr].size)
       ELSE
            /\ last' = Call("release", ptr, 0, release_error(ptr), TRUE, "none")
            /\ allocations' = [allocations EXCEPT ![ptr] = released_metadata(@, site)]
            /\ UNCHANGED shadow
    /\ UNCHANGED <<options, pre_allocated_shadow, shadow_pages, allocation_queue,
                   largest_allocation, total_allocation_size, current_mapping_addr,
                   shadow_query, mut_vars, tok_vars, drv_vars, find_vars>>

\* a reset that keeps the release backtrace
reset_metadata_keeps_release_site(allocation) ==
    [allocation EXCEPT
        !.size = 0,
        !.freed = FALSE,
        !.allocation_site_backtrace = None]

\* the metadata reset puts on the freelist for a freed allocation
reset_metadata(allocation) ==
    [allocation EXCEPT
        !.size = 0,
        !.freed = FALSE,
        !.allocation_site_backtrace = None,
        !.release_site_backtrace = None]

\* a reset that pushes every freed allocation twice
RECURSIVE queue_push_all_twice(_, _)
queue_push_all_twice(queue, list) ==
    IF list = <<>> THEN queue
    ELSE LET m == Head(list)
             k == m.actual_size
             q == IF k \in DOMAIN queue
                  THEN [queue EXCEPT ![k] = Append(Append(@, m), m)]
                  ELSE Insert(queue, k, <<m, m>>)
         IN queue_push_all_twice(q, Tail(list))

\* allocation_queue.entry(actual_size).or_default().push(allocation), in drain order
RECURSIVE queue_push_all(_, _)
queue_push_all(queue, list) ==
    IF list = <<>> THEN queue
    ELSE LET m == Head(list)
             k == m.actual_size
             q == IF k \in DOMAIN queue
                  THEN [queue EXCEPT ![k] = Append(@, m)]
                  ELSE Insert(queue, k, <<m>>)
         IN queue_push_all(q, Tail(list))

RECURSIVE poison_all(_, _, _)
poison_all(sh, table, keys) ==
    IF keys = <<>> THEN sh
    ELSE poison_all(poison(sh, map_to_shadow(Head(keys)), table[Head(keys)].size),
                    table, Tail(keys))

\* the orders in which HashMap::drain can hand out the keys of S
DrainOrders(S) ==
    {o \in [1..Cardinality(S) -> S] : \A i, j \in 1..Cardinality(S) : o[i] = o[j] => i = j}

(***************************************************************************)
(* Allocator::reset().  order is the order in which drain() yields the     *)
(* freed allocations.                                                      *)
(***************************************************************************)
Reset(order) ==
    LET live == {p \in DOMAIN allocations : ~allocations[p].freed}
        moved == [i \in 1..Len(order) |-> reset_metadata(allocations[order[i]])]
    IN
    /\ Alive
    /\ e4' = E4Step(e4, "reset", 0, 0)
    /\ last' = Call("reset", 0, 0, "none", FALSE, "none")
    /\ shadow' = poison_all(shadow, allocations, order)
    /\ allocation_queue' = queue_push_all(allocation_queue, moved)
    /\ allocations' =
         [k \in {allocations[p].address + page_size : p \in live} |->
             allocations[CHOOSE p \in live : allocations[p].address + page_size = k]]
    /\ total_allocation_size' = 0
    /\ UNCHANGED <<options, pre_allocated_shadow, shadow_pages, largest_allocation,
                   current_mapping_addr, shadow_query, mut_vars, tok_vars, drv_vars, find_vars>>

(***************************************************************************)
(* Allocator::poison(start, size), the public function, called on the      *)
(* shadow address start.                                                   *)
(***************************************************************************)
Poison(start, size) ==
    /\ Alive
    /\ e4' = E4Step(e4, "poison", start, 0)
    /\ IF shadow_write_ok(shadow_pages, start, size) THEN
            /\ shadow' = poison(shadow, start, size)
            /\ last' = Call("poison", start, 0, "none", FALSE, "none")
       ELSE
            /\ last' = Call("poison", start, 0, "none", TRUE, "none")
            /\ UNCHANGED shadow
    /\ UNCHANGED <<options, pre_allocated_shadow, allocations, shadow_pages, allocation_queue,
                   largest_allocation, total_allocation_size, current_mapping_addr,
                   shadow_query, mut_vars, tok_vars, drv_vars, find_vars>>

(***************************************************************************)
(* Allocator::map_shadow_for_region(start, end, unpoison), called from     *)
(* outside the allocator.                                                  *)
(***************************************************************************)
MapShadowForRegion(start, end, do_unpoison) ==
    /\ Alive
    /\ e4' = E4Step(e4, "map_shadow_for_region", start, 0)
    /\ \E out \in map_shadow_for_region(shadow_pages, shadow, start, end, do_unpoison) :
        /\ shadow_pages' = out.pages
        /\ shadow' = out.shadow
        /\ last' = Call("map_shadow_for_region", <<start, end, do_unpoison>>, out.ret,
                        "none", out.panic, "none")
    /\ UNCHANGED <<options, pre_allocated_shadow, allocations, allocation_queue,
                   largest_allocation, total_allocation_size, current_mapping_addr,
                   shadow_query, mut_vars, tok_vars, drv_vars, find_vars>>

\* frida_gum::PageProtection: Read = 1, Write = 2, Execute = 4, ReadWrite = 3
PageProtection_ReadWrite == 3

\* protection as u32 & PageProtection::ReadWrite as u32 != 0
readable_or_writable(protection) == (protection % 4) # 0

RangeDetails(start, size, protection) ==
    [start |-> start, size |-> size, protection |-> protection]

\* the callback of unpoison_all_existing_memory over the ranges that are left
RECURSIVE unpoison_ranges(_, _, _)
unpoison_ranges(pages, sh, ranges) ==
    IF ranges = <<>> THEN {ShadowOutcome(pages, sh, 0, FALSE)}
    ELSE LET range == Head(ranges)
             start == range.start
             end == start + range.size
         IN IF ~readable_or_writable(range.protection)
            THEN unpoison_ranges(pages, sh, Tail(ranges))
            ELSE IF pre_allocated_shadow /\ start = shadow_offset
            THEN unpoison_ranges(pages, sh, Tail(ranges))
            ELSE UNION {IF out.panic THEN {out}
                        ELSE unpoison_ranges(out.pages, out.shadow, Tail(ranges)) :
                            out \in map_shadow_for_region(pages, sh, start, end, TRUE)}

(***************************************************************************)
(* Allocator::unpoison_all_existing_memory().  ranges is what              *)
(* RangeDetails::enumerate_with_prot hands to the callback, in order.      *)
(***************************************************************************)
UnpoisonAllExistingMemory(ranges) ==
    /\ Alive
    /\ e4' = E4Step(e4, "unpoison_all_existing_memory", 0, 0)
    /\ \E out \in unpoison_ranges(shadow_pages, shadow, ranges) :
        /\ shadow_pages' = out.pages
        /\ shadow' = out.shadow
        /\ last' = Call("unpoison_all_existing_memory", 0, 0, "none", out.panic, "none")
    /\ UNCHANGED <<options, pre_allocated_shadow, allocations, allocation_queue,
                   largest_allocation, total_allocation_size, current_mapping_addr,
                   shadow_query, mut_vars, tok_vars, drv_vars, find_vars>>

\* the pointers release is called with: null, every key of the table, the user
\* pointer of every chunk on the freelist, and a chunk base
ReleasePtrs ==
    {0, base_mapping_addr} \cup DOMAIN allocations
        \cup UNION {{allocation_queue[k][i].address + page_size :
                        i \in 1..Len(allocation_queue[k])} : k \in DOMAIN allocation_queue}

OptionChoices ==
    [asan_max_allocation : {LowMaxAllocation, HighMaxAllocation},
     asan_max_allocation_panics : BOOLEAN,
     asan_max_total_allocation : {MaxTotal},
     enable_asan_allocation_backtraces : BOOLEAN]

NoQuery == [address |-> 0, at |-> <<>>]

\* Allocator::new(options), the options being one of choices.  new panics when
\* sysconf fails or when the mmap that probes the shadow bit fails: no allocator
\* is there to call then.  The mmap of the whole shadow decides
\* pre_allocated_shadow.
AllocatorNew(choices) ==
    /\ options \in choices
    /\ pre_allocated_shadow \in BOOLEAN
    /\ allocations = <<>>
    /\ shadow_pages = {}
    /\ allocation_queue = <<>>
    /\ largest_allocation = 0
    /\ total_allocation_size = 0
    /\ current_mapping_addr = base_mapping_addr
    /\ shadow = [a \in ShadowAddrs |-> 0]
    /\ \E panic \in BOOLEAN :
        /\ panic => ~pre_allocated_shadow
        /\ last = Call("new", 0, 0, "none", panic, "none")
    /\ e4 = [stage |-> 0, p1 |-> 0, a |-> 0]

AllocInit == AllocatorNew(OptionChoices)

\* state/mod.rs:27
DEFAULT_MAX_SIZE == 1048576

NoMutation == [mutator |-> "none", result |-> "none"]

\* the record of a call on a Tokens value; no call has been made
NoTokenCall ==
    [op |-> "none", token |-> <<>>, file |-> None, read_error |-> None, written |-> None,
     ret |-> "none", added |-> FALSE, entries |-> 0, before |-> <<>>, calls |-> 0]

\* no Tokens value is under construction
TokIdle ==
    /\ token_vec = <<>>
    /\ token_call = NoTokenCall

\* the record of the fuzzer binary
Driver(pc, concolic, restarted, count, by, err, fuzz, main) ==
    [pc |-> pc, concolic |-> concolic, restarted |-> restarted, count |-> count,
     by |-> by, err |-> err, fuzz |-> fuzz, main |-> main]

\* main has not been entered
DrvIdle == driver = Driver("idle", FALSE, FALSE, 0, "none", "none", "none", "idle")

\* find_metadata has not been called
NoFind == [table |-> <<>>, ptr |-> 0, hint_base |-> 0, ret |-> None, called |-> FALSE]

FindIdle == find_query = NoFind

\* StdState::new with an empty corpus and no metadata; no input is being mutated
MutIdle ==
    /\ input = <<>>
    /\ max_size = DEFAULT_MAX_SIZE
    /\ corpus = <<>>
    /\ current = None
    /\ tokens = None
    /\ cmps = None
    /\ mutation = NoMutation

Init ==
    /\ AllocInit
    /\ shadow_query = NoQuery
    /\ MutIdle
    /\ TokIdle
    /\ DrvIdle
    /\ FindIdle

AllocStep ==
    \E req \in ReqSizes, site \in AllocSites : Alloc(req, site)

ReleaseStep == \E ptr \in ReleasePtrs, site \in ReleaseSites : Release(ptr, site)

ResetStep ==
    \E order \in DrainOrders({p \in DOMAIN allocations : allocations[p].freed}) :
        Reset(order)

\* poison is called on the shadow of an allocation of the table
PoisonStep ==
    \E p \in DOMAIN allocations : Poison(map_to_shadow(p), allocations[p].size)

\* a range of the target: code, mapped above the space of the allocator
TargetRange == RangeDetails(AddrSpaceEnd + page_size, 2 * page_size, 5)
\* a range nothing can read or write
GuardRange == RangeDetails(AddrSpaceEnd + 4 * page_size, page_size, 0)

\* the regions map_shadow_for_region is called with: the chunks of the table and
\* the range of the target
Regions ==
    {<<allocations[p].address, allocations[p].address + allocations[p].actual_size>> :
        p \in DOMAIN allocations}
        \cup {<<TargetRange.start, TargetRange.start + TargetRange.size>>}

MapShadowStep ==
    \E region \in Regions, do_unpoison \in BOOLEAN :
        MapShadowForRegion(region[1], region[2], do_unpoison)

\* the runs of consecutive addresses of S, lowest first, as ranges
RECURSIVE runs(_)
runs(S) ==
    IF S = {} THEN <<>>
    ELSE LET lo == Min(S)
             hi == CHOOSE h \in S : /\ (lo..h) \subseteq S
                                    /\ h + 1 \notin S
                                    /\ h >= lo
         IN <<RangeDetails(lo, hi + 1 - lo, PageProtection_ReadWrite)>>
                \o runs(S \ (lo..hi))

\* the ranges of the allocator as the process has them mapped: the shadow, or
\* the pages of it that are mapped, and the chunks from base_mapping_addr to the
\* cursor
AllocatorRanges ==
    (IF pre_allocated_shadow
     THEN <<RangeDetails(shadow_offset, 2 * shadow_offset, PageProtection_ReadWrite)>>
     ELSE runs((shadow_pages \cup probe_page) \cap ShadowAddrs))
        \o (IF current_mapping_addr > base_mapping_addr
            THEN <<RangeDetails(base_mapping_addr, current_mapping_addr - base_mapping_addr,
                                PageProtection_ReadWrite)>>
            ELSE <<>>)

UnpoisonAllStep ==
    \E ranges \in {AllocatorRanges, <<GuardRange, TargetRange>> \o AllocatorRanges} :
        UnpoisonAllExistingMemory(ranges)

Next == AllocStep \/ ReleaseStep \/ ResetStep

Spec == Init /\ [][Next]_vars

(***************************************************************************)
(* The allocator with the public functions that write the shadow called    *)
(* between alloc and release.                                              *)
(***************************************************************************)
\* one choice of the limits
ApiOptions ==
    [asan_max_allocation : {HighMaxAllocation},
     asan_max_allocation_panics : {FALSE},
     asan_max_total_allocation : {MaxTotal},
     enable_asan_allocation_backtraces : BOOLEAN]

ApiNext ==
    \/ AllocStep
    \/ ReleaseStep
    \/ PoisonStep
    \/ MapShadowStep
    \/ UnpoisonAllStep

ApiInit ==
    /\ AllocatorNew(ApiOptions)
    /\ shadow_query = NoQuery
    /\ MutIdle
    /\ TokIdle
    /\ DrvIdle
    /\ FindIdle

ApiSpec == ApiInit /\ [][ApiNext]_vars

(***************************************************************************)
(* Allocator::map_to_shadow(start), queried at any address.                *)
(***************************************************************************)
MaxProbe == Pow2(shadow_bit + 4) + ProbeSlack

MapToShadow(a) ==
    /\ shadow_query' = [address |-> a,
                        at |-> <<map_to_shadow(a), map_to_shadow(a + 1),
                                 map_to_shadow(a + 7), map_to_shadow(a + 8)>>]
    /\ UNCHANGED <<alloc_vars, mut_vars, tok_vars, drv_vars, find_vars>>

\* only map_to_shadow is called: one choice of the options
ShadowInit ==
    /\ AllocInit
    /\ options.asan_max_allocation = HighMaxAllocation
    /\ ~options.asan_max_allocation_panics
    /\ options.enable_asan_allocation_backtraces
    /\ pre_allocated_shadow
    /\ shadow_query = NoQuery
    /\ MutIdle
    /\ TokIdle
    /\ DrvIdle
    /\ FindIdle

ShadowNext == \E a \in 0..MaxProbe : MapToShadow(a)

ShadowSpec == ShadowInit /\ [][ShadowNext]_vars

(***************************************************************************)
(* The mutators of mutations.rs and token_mutations.rs.  A mutator is an   *)
(* operator that gives the set of outcomes of one call of mutate, one for  *)
(* each way the calls to the state's Rand can turn out.  An outcome is the *)
(* bytes of the input after the call and the MutationResult returned.      *)
(***************************************************************************)
\* the longest input of the general family of inputs
MaxLen == 3
\* max_size is the length of the input plus 0..MaxHeadroom
MaxHeadroom == 2

\* mutations.rs:61
ARITH_MAX == 35
\* mutations.rs:707, the bound of below() for the length of an inserted region
InsertLenBound == 16

INTERESTING_8 == <<-128, -1, 0, 1, 16, 32, 64, 100, 127>>
INTERESTING_16 ==
    <<-128, -1, 0, 1, 16, 32, 64, 100, 127, -32768, -129, 128, 255, 256, 512, 1000,
      1024, 4096, 32767>>
INTERESTING_32 ==
    <<-128, -1, 0, 1, 16, 32, 64, 100, 127, -32768, -129, 128, 255, 256, 512, 1000,
      1024, 4096, 32767, -2147483647 - 1, -100663046, -32769, 32768, 65535, 65536,
      100663045, 2147483647>>

\* Rand, by its contract: below(n) is in [0, n), between(lo, hi) in [lo, hi],
\* choose picks an element, next() as u8 is any byte (drawn here from RandBytes)
below(n) == 0..(n - 1)
between(lo, hi) == lo..hi
choose_index(seq) == 0..(Len(seq) - 1)
RandBytes == {0, 65, 255}

Skipped(bytes) == [bytes |-> bytes, result |-> "Skipped"]
Mutated(bytes) == [bytes |-> bytes, result |-> "Mutated"]

\* data[from..to] with the indices of the source, which count from 0
Slice(data, from, to) == SubSeq(data, from + 1, to)
Reverse(s) == [i \in 1..Len(s) |-> s[Len(s) + 1 - i]]
MinOf(a, b) == IF a <= b THEN a ELSE b

\* Vec::resize(new_len, value)
resize(data, new_len, value) ==
    IF new_len <= Len(data) THEN SubSeq(data, 1, new_len)
    ELSE data \o [i \in 1..(new_len - Len(data)) |-> value]

\* what a call of buffer_self_copy or buffer_copy leaves: the buffer written to,
\* and whether a debug_assert of the call panicked
Done(data) == [data |-> data, panic |-> FALSE]
Panicked(data) == [data |-> data, panic |-> TRUE]

\* the calls that gave outs, followed by the call F on the buffer: a panic ends it
AndThen(outs, F(_)) == UNION {IF o.panic THEN {o} ELSE F(o.data) : o \in outs}

\* what mutate leaves when the calls on the input gave outs and it then returns result
Returns(outs, result) ==
    {[bytes |-> o.data, result |-> IF o.panic THEN "Panic" ELSE result] : o \in outs}

\* the bytes a copy reads when it reads n bytes past the end of a buffer
PastEnd(n) == [1..(IF n > 0 THEN n ELSE 0) -> RandBytes]

\* buffer_self_copy.  Where a debug_assert does not hold, a build with debug
\* assertions panics and a build without goes on: ptr::copy then reads what lies
\* after the buffer, and what it writes after the buffer is not seen here.
buffer_self_copy(data, from, to, len) ==
    LET asserted ==
            /\ Len(data) # 0
            /\ from + len <= Len(data)
            /\ to + len <= Len(data)
        copy(mem) ==
            IF len # 0 /\ from # to
            THEN [i \in 1..Len(data) |->
                    IF i - 1 >= to /\ i - 1 < to + len THEN mem[i - to + from] ELSE data[i]]
            ELSE data
    IN IF asserted THEN {Done(copy(data))}
       ELSE {Panicked(data)}
                \cup {Done(copy(data \o past)) : past \in PastEnd(from + len - Len(data))}

\* buffer_copy, with its debug_asserts as in buffer_self_copy
buffer_copy(dst, src, from, to, len) ==
    LET asserted ==
            /\ Len(dst) # 0
            /\ Len(src) # 0
            /\ from + len <= Len(src)
            /\ to + len <= Len(dst)
        copy(mem) ==
            IF len # 0
            THEN [i \in 1..Len(dst) |->
                    IF i - 1 >= to /\ i - 1 < to + len THEN mem[i - to + from] ELSE dst[i]]
            ELSE dst
    IN IF asserted THEN {Done(copy(src))}
       ELSE {Panicked(dst)}
                \cup {Done(copy(src \o past)) : past \in PastEnd(from + len - Len(src))}

\* buffer_set: the slice data[from..from + len] panics in every build when it
\* ends after the buffer
buffer_set(data, from, len, val) ==
    IF from + len <= Len(data)
    THEN {Done([i \in 1..Len(data) |->
                    IF i - 1 >= from /\ i - 1 < from + len THEN val ELSE data[i]])}
    ELSE {Panicked(data)}

\* byte ^ (1 << bit)
XorBit(byte, bit) ==
    IF (byte \div Pow2(bit)) % 2 = 1 THEN byte - Pow2(bit) ELSE byte + Pow2(bit)

BitFlipMutator(bytes) ==
    IF Len(bytes) = 0 THEN {Skipped(bytes)}
    ELSE {Mutated([bytes EXCEPT ![idx + 1] = XorBit(@, bit)]) :
            bit \in 0..7, idx \in choose_index(bytes)}

ByteFlipMutator(bytes) ==
    IF Len(bytes) = 0 THEN {Skipped(bytes)}
    ELSE {Mutated([bytes EXCEPT ![idx + 1] = 255 - @]) : idx \in choose_index(bytes)}

ByteIncMutator(bytes) ==
    IF Len(bytes) = 0 THEN {Skipped(bytes)}
    ELSE {Mutated([bytes EXCEPT ![idx + 1] = (@ + 1) % 256]) : idx \in choose_index(bytes)}

ByteDecMutator(bytes) ==
    IF Len(bytes) = 0 THEN {Skipped(bytes)}
    ELSE {Mutated([bytes EXCEPT ![idx + 1] = (@ + 255) % 256]) : idx \in choose_index(bytes)}

\* !*byte, the bitwise complement
ByteNegMutator(bytes) ==
    IF Len(bytes) = 0 THEN {Skipped(bytes)}
    ELSE {Mutated([bytes EXCEPT ![idx + 1] = 255 - @]) : idx \in choose_index(bytes)}

ByteRandMutator(bytes) ==
    IF Len(bytes) = 0 THEN {Skipped(bytes)}
    ELSE {Mutated([bytes EXCEPT ![idx + 1] = val]) :
            idx \in choose_index(bytes), val \in RandBytes}

(***************************************************************************)
(* An unsigned integer of w bytes is the sequence of its w base-256        *)
(* digits, the most significant first: u64 does not fit the integers of    *)
(* the model checker.  The target is little-endian.                        *)
(***************************************************************************)
to_be_bytes(val) == val
to_le_bytes(val) == Reverse(val)
to_ne_bytes(val) == to_le_bytes(val)
from_ne_bytes(bytes) == Reverse(bytes)
swap_bytes(val) == Reverse(val)

\* x as uN for a signed constant x: the two's complement digits
as_unsigned(x, width) == [i \in 1..width |-> (x \div Pow2(8 * (width - i))) % 256]

RECURSIVE wrapping_add(_, _)
wrapping_add(val, num) ==
    IF val = <<>> THEN <<>>
    ELSE LET sum == val[Len(val)] + num
         IN Append(wrapping_add(SubSeq(val, 1, Len(val) - 1), sum \div 256), sum % 256)

RECURSIVE wrapping_sub(_, _)
wrapping_sub(val, num) ==
    IF val = <<>> THEN <<>>
    ELSE LET diff == val[Len(val)] - num
         IN Append(wrapping_sub(SubSeq(val, 1, Len(val) - 1), IF diff < 0 THEN 1 ELSE 0),
                   (diff + 256) % 256)

\* slice[index..index + len].copy_from_slice(new_bytes)
copy_from_slice(data, index, new_bytes) ==
    [i \in 1..Len(data) |->
        IF i > index /\ i <= index + Len(new_bytes) THEN new_bytes[i - index] ELSE data[i]]

\* the match of add_mutator_impl on below(4)
add_new_val(choice, val, num) ==
    CASE choice = 0 -> wrapping_add(val, num)
      [] choice = 1 -> wrapping_sub(val, num)
      [] choice = 2 -> swap_bytes(wrapping_add(swap_bytes(val), num))
      [] OTHER -> swap_bytes(wrapping_sub(swap_bytes(val), num))

add_mutator_impl(bytes, width) ==
    IF Len(bytes) < width THEN {Skipped(bytes)}
    ELSE {Mutated(copy_from_slice(bytes, index,
                to_ne_bytes(add_new_val(choice,
                    from_ne_bytes(Slice(bytes, index, index + width)), 1 + r)))) :
            index \in 0..(Len(bytes) - width), r \in below(ARITH_MAX), choice \in below(4)}

ByteAddMutator(bytes) == add_mutator_impl(bytes, 1)
WordAddMutator(bytes) == add_mutator_impl(bytes, 2)
DwordAddMutator(bytes) == add_mutator_impl(bytes, 4)
QwordAddMutator(bytes) == add_mutator_impl(bytes, 8)

interesting_mutator_impl(bytes, width, interesting) ==
    IF Len(bytes) < width THEN {Skipped(bytes)}
    ELSE LET upper_bound == Len(bytes) + 1 - width
         IN {Mutated(copy_from_slice(bytes, idx,
                    IF order = 0
                    THEN to_be_bytes(as_unsigned(interesting[k + 1], width))
                    ELSE to_le_bytes(as_unsigned(interesting[k + 1], width)))) :
                idx \in below(upper_bound), k \in choose_index(interesting),
                order \in {0, 1}}

ByteInterestingMutator(bytes) == interesting_mutator_impl(bytes, 1, INTERESTING_8)
WordInterestingMutator(bytes) == interesting_mutator_impl(bytes, 2, INTERESTING_16)
DwordInterestingMutator(bytes) == interesting_mutator_impl(bytes, 4, INTERESTING_32)

\* Vec::drain(from..to)
drain(data, from, to) == Slice(data, 0, from) \o Slice(data, to, Len(data))

BytesDeleteMutator(bytes) ==
    LET size == Len(bytes)
    IN IF size <= 2 THEN {Skipped(bytes)}
       ELSE UNION {{Mutated(drain(bytes, off, off + len)) : len \in below(size - off)} :
                        off \in below(size)}

\* the length an insertion is cut to so that size + len <= max_size, if there is room
insert_len(size, len, max) ==
    IF size + len > max
    THEN (IF max > size THEN Some(max - size) ELSE None)
    ELSE Some(len)

BytesExpandMutator(bytes, max) ==
    LET size == Len(bytes)
        expand(off, len) ==
            buffer_self_copy(resize(bytes, size + len, 0), off, off + len, size - off)
    IN UNION {IF insert_len(size, 1 + r, max) = None THEN {Skipped(bytes)}
              ELSE Returns(expand(off, Unwrap(insert_len(size, 1 + r, max))), "Mutated") :
                off \in below(size + 1), r \in below(InsertLenBound)}

BytesInsertMutator(bytes, max) ==
    LET size == Len(bytes)
        insert(off, len, val) ==
            AndThen(buffer_self_copy(resize(bytes, size + len, 0), off, off + len, size - off),
                    LAMBDA data : buffer_set(data, off, len, val))
    IN IF size = 0 THEN {Skipped(bytes)}
       ELSE UNION {
            IF insert_len(size, 1 + r, max) = None THEN {Skipped(bytes)}
            ELSE UNION {Returns(insert(off, Unwrap(insert_len(size, 1 + r, max)),
                                       bytes[at + 1]), "Mutated") :
                            at \in below(size)} :
                off \in below(size + 1), r \in below(InsertLenBound)}

BytesRandInsertMutator(bytes, max) ==
    LET size == Len(bytes)
        insert(off, len, val) ==
            AndThen(buffer_self_copy(resize(bytes, size + len, 0), off, off + len, size - off),
                    LAMBDA data : buffer_set(data, off, len, val))
    IN UNION {
            IF insert_len(size, 1 + r, max) = None THEN {Skipped(bytes)}
            ELSE UNION {Returns(insert(off, Unwrap(insert_len(size, 1 + r, max)), val),
                               "Mutated") :
                            val \in RandBytes} :
                off \in below(size + 1), r \in below(InsertLenBound)}

BytesSetMutator(bytes) ==
    LET size == Len(bytes)
    IN IF size = 0 THEN {Skipped(bytes)}
       ELSE UNION {UNION {Returns(buffer_set(bytes, off, 1 + r, bytes[at + 1]), "Mutated") :
                            r \in below(MinOf(InsertLenBound, size - off)),
                            at \in choose_index(bytes)} :
                    off \in below(size)}

BytesRandSetMutator(bytes) ==
    LET size == Len(bytes)
    IN IF size = 0 THEN {Skipped(bytes)}
       ELSE UNION {UNION {Returns(buffer_set(bytes, off, 1 + r, val), "Mutated") :
                            r \in below(MinOf(InsertLenBound, size - off)),
                            val \in RandBytes} :
                    off \in below(size)}

BytesCopyMutator(bytes) ==
    LET size == Len(bytes)
    IN IF size <= 1 THEN {Skipped(bytes)}
       ELSE UNION {UNION {Returns(buffer_self_copy(bytes, from, to, 1 + r), "Mutated") :
                            r \in below(size - Max(from, to))} :
                    from \in below(size), to \in below(size)}

BytesInsertCopyMutator(bytes, max) ==
    LET size == Len(bytes)
        froms(len) == IF size = len THEN {0} ELSE below(size - len)
        insert(off, len, from) ==
            LET resized == resize(bytes, size + len, 0)
                tmp_bufs == buffer_copy(resize(<<>>, len, 0), resized, from, 0, len)
            IN UNION {IF tmp_buf.panic THEN {Panicked(resized)}
                      ELSE AndThen(buffer_self_copy(resized, off, off + len, size - off),
                                   LAMBDA data : buffer_copy(data, tmp_buf.data, 0, off, len)) :
                        tmp_buf \in tmp_bufs}
    IN IF size = 0 THEN {Skipped(bytes)}
       ELSE UNION {
            IF insert_len(size, 1 + r, max) = None THEN {Skipped(bytes)}
            ELSE UNION {Returns(insert(off, Unwrap(insert_len(size, 1 + r, max)), from),
                               "Mutated") :
                            from \in froms(Unwrap(insert_len(size, 1 + r, max)))} :
                off \in below(size + 1), r \in below(MinOf(InsertLenBound, size))}

\* an outcome of BytesSwapMutator with the positions and the length drawn, each
\* None when the call did not get that far
SwapOutcome(bytes, result, first, second, len) ==
    [bytes |-> bytes, result |-> result, first |-> first, second |-> second, len |-> len]

\* a swap without the scratch buffer: the slice at first is read back after it
\* was overwritten
BytesSwapMutator_no_tmp(bytes) ==
    LET size == Len(bytes)
        swap(first, second, len) ==
            AndThen(buffer_self_copy(bytes, second, first, len),
                    LAMBDA data : buffer_self_copy(data, first, second, len))
    IN IF size <= 1 THEN {SwapOutcome(bytes, "Skipped", None, None, None)}
       ELSE UNION {UNION {{SwapOutcome(out.bytes, out.result,
                                       Some(first), Some(second), Some(1 + r)) :
                                out \in Returns(swap(first, second, 1 + r), "Mutated")} :
                            r \in below(size - Max(first, second))} :
                    first \in below(size), second \in below(size)}

BytesSwapMutator(bytes) ==
    LET size == Len(bytes)
        swap(first, second, len) ==
            LET tmp == Slice(bytes, first, first + len)
            IN AndThen(buffer_self_copy(bytes, second, first, len),
                       LAMBDA data : buffer_copy(data, tmp, 0, second, len))
    IN IF size <= 1 THEN {SwapOutcome(bytes, "Skipped", None, None, None)}
       ELSE UNION {UNION {{SwapOutcome(out.bytes, out.result,
                                       Some(first), Some(second), Some(1 + r)) :
                                out \in Returns(swap(first, second, 1 + r), "Mutated")} :
                            r \in below(size - Max(first, second))} :
                    first \in below(size), second \in below(size)}

MaxIn(S) == CHOOSE x \in S : \A y \in S : x >= y

\* an outcome of a mutator that reads the corpus: idx is the index drawn, read the
\* index of the testcase whose input was loaded, split_at the split point of a
\* splice; each is None when the call did not get that far
CorpusOutcome(bytes, result, idx, read, split_at) ==
    [bytes |-> bytes, result |-> result, idx |-> idx, read |-> read, split_at |-> split_at]

\* a mutator that takes every index for another testcase
is_current_never(idx, cur) == FALSE

\* if let Some(cur) = state.corpus().current() { if idx == *cur
is_current(idx, cur) == cur # None /\ idx = Unwrap(cur)

\* the corpus is empty: [0, 0) has no value for below(0) to return.  The call
\* panics, or it returns and corpus().get(idx)? finds no testcase at the index
\* and returns its error.
empty_corpus(bytes) ==
    {CorpusOutcome(bytes, "Panic", None, None, None),
     CorpusOutcome(bytes, "Error", None, None, None)}

CrossoverInsertMutator(bytes, max, corp, cur) ==
    LET size == Len(bytes)
        count == Len(corp)
        insert(other, from, to, len) ==
            AndThen(buffer_self_copy(resize(bytes, size + len, 0), to, to + len, size - to),
                    LAMBDA data : buffer_copy(data, other, from, to, len))
        with(idx) ==
            LET other == corp[idx + 1]
                other_size == Len(other)
                done(result, data) == CorpusOutcome(data, result, Some(idx), Some(idx), None)
            IN IF other_size < 2 THEN {done("Skipped", bytes)}
               ELSE \* below(size) of an empty input: the call panics or gives 0
                    (IF size = 0 THEN {done("Panic", bytes)} ELSE {})
                    \cup UNION {
                        UNION {IF insert_len(size, 1 + r, max) = None
                               THEN {done("Skipped", bytes)}
                               ELSE {done(out.result, out.bytes) :
                                        out \in Returns(
                                            insert(other, from, to,
                                                   Unwrap(insert_len(size, 1 + r, max))),
                                            "Mutated")} :
                            r \in below(other_size - from)} :
                        from \in below(other_size),
                        to \in IF size = 0 THEN {0} ELSE below(size)}
    IN IF count = 0 THEN empty_corpus(bytes)
       ELSE UNION {IF is_current(idx, cur)
                   THEN {CorpusOutcome(bytes, "Skipped", Some(idx), None, None)}
                   ELSE with(idx) : idx \in below(count)}

CrossoverReplaceMutator(bytes, corp, cur) ==
    LET size == Len(bytes)
        count == Len(corp)
        with(idx) ==
            LET other == corp[idx + 1]
                other_size == Len(other)
                done(result, data) == CorpusOutcome(data, result, Some(idx), Some(idx), None)
            IN IF other_size < 2 THEN {done("Skipped", bytes)}
               ELSE UNION {
                    UNION {UNION {{done(out.result, out.bytes) :
                                        out \in Returns(buffer_copy(bytes, other, from, to, len),
                                                        "Mutated")} :
                                to \in below(size - len)} :
                            len \in below(MinOf(other_size - from, size))} :
                    from \in below(other_size)}
    IN IF size = 0 THEN {CorpusOutcome(bytes, "Skipped", None, None, None)}
       ELSE IF count = 0 THEN empty_corpus(bytes)
       ELSE UNION {IF is_current(idx, cur)
                   THEN {CorpusOutcome(bytes, "Skipped", Some(idx), None, None)}
                   ELSE with(idx) : idx \in below(count)}

\* the first and the last position at which the two differ, -1 where there is none
locate_diffs(this, other) ==
    LET diffs == {i \in 0..(MinOf(Len(this), Len(other)) - 1) : this[i + 1] # other[i + 1]}
    IN IF diffs = {} THEN <<-1, -1>> ELSE <<Min(diffs), MaxIn(diffs)>>

\* a splice that takes a single position that differs, too
splice_breaks_on_any_diff(f, l) == f >= 0

\* if f != l && f >= 0 && l >= 2 { break (f as u64, l as u64); }
splice_breaks(f, l) == f # l /\ f >= 0 /\ l >= 2

\* the loop of at most four rounds computes the same diffs in each round
SpliceMutator(bytes, corp, cur) ==
    LET count == Len(corp)
        with(idx) ==
            LET other == corp[idx + 1]
                f == locate_diffs(bytes, other)[1]
                l == locate_diffs(bytes, other)[2]
            IN IF splice_breaks(f, l)
               THEN {CorpusOutcome(
                         Slice(bytes, 0, split_at) \o Slice(other, split_at, Len(other)),
                         "Mutated", Some(idx), Some(idx), Some(split_at)) :
                        split_at \in between(f, l)}
               ELSE {CorpusOutcome(bytes, "Skipped", Some(idx), Some(idx), None)}
    IN IF count = 0 THEN empty_corpus(bytes)
       ELSE UNION {IF is_current(idx, cur)
                   THEN {CorpusOutcome(bytes, "Skipped", Some(idx), None, None)}
                   ELSE with(idx) : idx \in below(count)}

TokenInsertMutator(bytes, max, meta) ==
    LET size == Len(bytes)
        insert(token, off, len) ==
            AndThen(buffer_self_copy(resize(bytes, size + len, 0), off, off + len, size - off),
                    LAMBDA data : buffer_copy(data, token, 0, off, len))
    IN IF meta = None THEN {Skipped(bytes)}
       ELSE IF Len(Unwrap(meta)) = 0 THEN {Skipped(bytes)}
       ELSE UNION {LET token == Unwrap(meta)[token_idx + 1]
                   IN IF insert_len(size, Len(token), max) = None THEN {Skipped(bytes)}
                      ELSE Returns(insert(token, off,
                                          Unwrap(insert_len(size, Len(token), max))),
                                   "Mutated") :
                    token_idx \in below(Len(Unwrap(meta))), off \in below(size + 1)}

TokenReplaceMutator(bytes, meta) ==
    LET size == Len(bytes)
    IN IF size = 0 THEN {Skipped(bytes)}
       ELSE IF meta = None THEN {Skipped(bytes)}
       ELSE IF Len(Unwrap(meta)) = 0 THEN {Skipped(bytes)}
       ELSE UNION {LET token == Unwrap(meta)[token_idx + 1]
                       len == IF off + Len(token) > size THEN size - off ELSE Len(token)
                   IN Returns(buffer_copy(bytes, token, 0, off, len), "Mutated") :
                    token_idx \in below(Len(Unwrap(meta))), off \in below(size)}

\* CmpValues: U8, U16, U32 and U64 hold two integers, Bytes two byte vectors
CmpValue(kind, v0, v1) == [kind |-> kind, v0 |-> v0, v1 |-> v1]

\* the arm CmpValues::U8 of I2SRandReplace
i2s_u8(bytes, v, off) ==
    LET len == Len(bytes)
        hits == {i \in off..(len - 1) : <<bytes[i + 1]>> = v.v0 \/ <<bytes[i + 1]>> = v.v1}
        i == Min(hits)
    IN IF hits = {} THEN {Skipped(bytes)}
       ELSE IF <<bytes[i + 1]>> = v.v0
            THEN {Mutated([bytes EXCEPT ![i + 1] = v.v1[1]])}
            ELSE {Mutated([bytes EXCEPT ![i + 1] = v.v0[1]])}

\* the arms CmpValues::U16, U32 and U64 of I2SRandReplace, width = size_of
i2s_int(bytes, v, off, width) ==
    LET len == Len(bytes)
        val(i) == from_ne_bytes(Slice(bytes, i, i + width))
        hits == {i \in off..(len - width) :
                    \/ val(i) = v.v0
                    \/ swap_bytes(val(i)) = v.v0
                    \/ val(i) = v.v1
                    \/ swap_bytes(val(i)) = v.v1}
        i == Min(hits)
        new_bytes ==
            IF val(i) = v.v0 THEN to_ne_bytes(v.v1)
            ELSE IF swap_bytes(val(i)) = v.v0 THEN to_ne_bytes(swap_bytes(v.v1))
            ELSE IF val(i) = v.v1 THEN to_ne_bytes(v.v0)
            ELSE to_ne_bytes(swap_bytes(v.v0))
    IN IF len < width \/ hits = {} THEN {Skipped(bytes)}
       ELSE {Mutated(copy_from_slice(bytes, i, new_bytes))}

\* buffer_copy(dst, src, 0, to, len) where len may exceed src.len(), in the arm
\* that never sets result to Mutated
buffer_copy_unchecked(dst, src, to, len) ==
    Returns(buffer_copy(dst, src, 0, to, len), "Skipped")

\* the call buffer_copy(input, src, 0, to, len) that the arm CmpValues::Bytes of
\* I2SRandReplace makes, if it makes one
i2s_bytes_copy(bytes, v, off) ==
    LET len == Len(bytes)
        sizes(operand, i) ==
            {size \in 1..MinOf(Len(operand), len - i) :
                Slice(operand, 0, size) = Slice(bytes, i, i + size)}
        hits == {i \in off..(len - 1) : sizes(v.v0, i) # {} \/ sizes(v.v1, i) # {}}
        i == Min(hits)
    IN IF hits = {} THEN None
       ELSE IF sizes(v.v0, i) # {}
            THEN Some([src |-> v.v1, to |-> i, len |-> MaxIn(sizes(v.v0, i))])
            ELSE Some([src |-> v.v0, to |-> i, len |-> MaxIn(sizes(v.v1, i))])

\* the arm CmpValues::Bytes of I2SRandReplace: result is never set to Mutated
i2s_bytes(bytes, v, off) ==
    LET copy == i2s_bytes_copy(bytes, v, off)
    IN IF copy = None THEN {Skipped(bytes)}
       ELSE buffer_copy_unchecked(bytes, Unwrap(copy).src, Unwrap(copy).to, Unwrap(copy).len)

I2SRandReplace(bytes, meta) ==
    LET size == Len(bytes)
        replace(v, off) ==
            CASE v.kind = "U8" -> i2s_u8(bytes, v, off)
              [] v.kind = "U16" -> i2s_int(bytes, v, off, 2)
              [] v.kind = "U32" -> i2s_int(bytes, v, off, 4)
              [] v.kind = "U64" -> i2s_int(bytes, v, off, 8)
              [] OTHER -> i2s_bytes(bytes, v, off)
    IN IF size = 0 THEN {Skipped(bytes)}
       ELSE IF meta = None THEN {Skipped(bytes)}
       ELSE IF Len(Unwrap(meta)) = 0 THEN {Skipped(bytes)}
       ELSE UNION {replace(Unwrap(meta)[idx + 1], off) :
                    idx \in below(Len(Unwrap(meta))), off \in below(size)}

(***************************************************************************)
(* One call of mutate.  The input, max_size, the corpus and the metadata   *)
(* are drawn at the start; max_size is the default or was set to a value   *)
(* that is at least the length of the input.                               *)
(***************************************************************************)
ByteChoices == {0, 1, 255}
ShortInputs == UNION {[1..n -> ByteChoices] : n \in 0..MaxLen}
\* inputs long enough for the mutators of 4 and 8 bytes
LongInputs == {<<0, 1, 2, 3>>, <<1, 0, 0, 0, 0, 0, 0, 0>>, <<0, 0, 0, 0, 0, 0, 0, 1>>}
Inputs == ShortInputs \cup LongInputs

\* inputs of other testcases: shorter than 2, of the length of a long input, and
\* longer than any max_size of a short input
OtherEntries == {<<0>>, <<1, 1>>, <<0, 255, 2, 3>>, <<255, 1, 255, 0, 1, 255>>}

\* no token, two tokens, and a list with the empty token (the line "\x" of a file)
TokenLists == {<<>>, <<<<65>>, <<255, 0, 255>>>>, <<<<>>, <<66>>>>}

CmpList ==
    <<CmpValue("U8", <<0>>, <<65>>),
      CmpValue("U16", <<1, 0>>, <<0, 255>>),
      CmpValue("U32", <<0, 0, 0, 1>>, <<255, 0, 0, 1>>),
      CmpValue("U64", <<0, 0, 0, 0, 0, 0, 0, 1>>, <<1, 2, 3, 4, 5, 6, 7, 8>>),
      CmpValue("Bytes", <<0>>, <<255>>),
      CmpValue("Bytes", <<1, 255>>, <<0, 0>>),
      CmpValue("Bytes", <<0, 1>>, <<255>>)>>
CmpLists == {<<>>, CmpList}

Env(corp, cur, toks, list) == [corpus |-> corp, current |-> cur, tokens |-> toks, cmps |-> list]

\* the states a mutator runs in: one family varies the corpus, one the tokens,
\* one the compare log; the input is a copy of the testcase at index 0
Envs(bytes) ==
    {Env(<<bytes, other>>, cur, None, None) : other \in OtherEntries, cur \in {None, Some(0)}}
        \cup {Env(<<>>, None, None, None)}
        \cup {Env(<<bytes>>, Some(0), Some(list), None) : list \in TokenLists}
        \cup {Env(<<bytes>>, Some(0), None, Some(list)) : list \in CmpLists}

\* the allocator is constructed and not used
QuietAllocator ==
    /\ AllocInit
    /\ options.asan_max_allocation = HighMaxAllocation
    /\ ~options.asan_max_allocation_panics
    /\ options.enable_asan_allocation_backtraces
    /\ pre_allocated_shadow
    /\ shadow_query = NoQuery

MutInit ==
    /\ QuietAllocator
    /\ input \in Inputs
    /\ max_size \in {Len(input) + room : room \in 0..MaxHeadroom} \cup {DEFAULT_MAX_SIZE}
    /\ \E env \in Envs(input) :
        /\ corpus = env.corpus
        /\ current = env.current
        /\ tokens = env.tokens
        /\ cmps = env.cmps
    /\ mutation = NoMutation
    /\ TokIdle
    /\ DrvIdle
    /\ FindIdle

\* mutate(state, input, stage_idx) of the mutator called name
Mutate(name, outcomes) ==
    /\ mutation = NoMutation
    /\ \E out \in outcomes :
        /\ input' = out.bytes
        /\ mutation' = [mutator |-> name, result |-> out.result]
    /\ UNCHANGED <<max_size, corpus, current, tokens, cmps, alloc_vars, shadow_query,
                   tok_vars, drv_vars, find_vars>>

BitFlip == Mutate("BitFlipMutator", BitFlipMutator(input))
ByteFlip == Mutate("ByteFlipMutator", ByteFlipMutator(input))
ByteInc == Mutate("ByteIncMutator", ByteIncMutator(input))
ByteDec == Mutate("ByteDecMutator", ByteDecMutator(input))
ByteNeg == Mutate("ByteNegMutator", ByteNegMutator(input))
ByteRand == Mutate("ByteRandMutator", ByteRandMutator(input))
ByteAdd == Mutate("ByteAddMutator", ByteAddMutator(input))
WordAdd == Mutate("WordAddMutator", WordAddMutator(input))
DwordAdd == Mutate("DwordAddMutator", DwordAddMutator(input))
QwordAdd == Mutate("QwordAddMutator", QwordAddMutator(input))
ByteInteresting == Mutate("ByteInterestingMutator", ByteInterestingMutator(input))
WordInteresting == Mutate("WordInterestingMutator", WordInterestingMutator(input))
DwordInteresting == Mutate("DwordInterestingMutator", DwordInterestingMutator(input))
BytesDelete == Mutate("BytesDeleteMutator", BytesDeleteMutator(input))
BytesExpand == Mutate("BytesExpandMutator", BytesExpandMutator(input, max_size))
BytesInsert == Mutate("BytesInsertMutator", BytesInsertMutator(input, max_size))
BytesRandInsert == Mutate("BytesRandInsertMutator", BytesRandInsertMutator(input, max_size))
BytesSet == Mutate("BytesSetMutator", BytesSetMutator(input))
BytesRandSet == Mutate("BytesRandSetMutator", BytesRandSetMutator(input))
BytesCopy == Mutate("BytesCopyMutator", BytesCopyMutator(input))
BytesInsertCopy == Mutate("BytesInsertCopyMutator", BytesInsertCopyMutator(input, max_size))
BytesSwap ==
    /\ mutation = NoMutation
    /\ \E out \in BytesSwapMutator(input) :
        /\ input' = out.bytes
        /\ mutation' = [mutator |-> "BytesSwapMutator", result |-> out.result,
                        first |-> out.first, second |-> out.second, len |-> out.len]
    /\ UNCHANGED <<max_size, corpus, current, tokens, cmps, alloc_vars, shadow_query,
                   tok_vars, drv_vars, find_vars>>

\* mutate of a mutator that reads the corpus; what Rand gave is kept with the result
MutateWithCorpus(name, outcomes) ==
    /\ mutation = NoMutation
    /\ \E out \in outcomes :
        /\ input' = out.bytes
        /\ mutation' = [mutator |-> name, result |-> out.result, idx |-> out.idx,
                        read |-> out.read, split_at |-> out.split_at]
    /\ UNCHANGED <<max_size, corpus, current, tokens, cmps, alloc_vars, shadow_query,
                   tok_vars, drv_vars, find_vars>>

CrossoverInsert ==
    MutateWithCorpus("CrossoverInsertMutator",
                     CrossoverInsertMutator(input, max_size, corpus, current))
CrossoverReplace ==
    MutateWithCorpus("CrossoverReplaceMutator",
                     CrossoverReplaceMutator(input, corpus, current))
Splice == MutateWithCorpus("SpliceMutator", SpliceMutator(input, corpus, current))

TokenInsert == Mutate("TokenInsert", TokenInsertMutator(input, max_size, tokens))
TokenReplace == Mutate("TokenReplace", TokenReplaceMutator(input, tokens))
I2SRand == Mutate("I2SRandReplace", I2SRandReplace(input, cmps))

MutNext ==
    \/ BitFlip \/ ByteFlip \/ ByteInc \/ ByteDec \/ ByteNeg \/ ByteRand
    \/ ByteAdd \/ WordAdd \/ DwordAdd \/ QwordAdd
    \/ ByteInteresting \/ WordInteresting \/ DwordInteresting
    \/ BytesDelete \/ BytesExpand \/ BytesInsert \/ BytesRandInsert
    \/ BytesSet \/ BytesRandSet \/ BytesCopy \/ BytesInsertCopy \/ BytesSwap
    \/ CrossoverInsert \/ CrossoverReplace \/ Splice
    \/ TokenInsert \/ TokenReplace \/ I2SRand

MutSpec == MutInit /\ [][MutNext]_vars

(***************************************************************************)
(* The mutators that read the corpus, in more states of the corpus: empty, *)
(* of one testcase, of two, with each testcase or none as the current one. *)
(***************************************************************************)
CorpusEnvs(bytes) ==
    {Env(<<>>, None, None, None)}
        \cup {Env(<<bytes>>, cur, None, None) : cur \in {None, Some(0)}}
        \cup {Env(<<bytes, other>>, cur, None, None) :
                  other \in OtherEntries, cur \in {None, Some(0), Some(1)}}

CorpusInit ==
    /\ QuietAllocator
    /\ input \in Inputs
    /\ max_size \in {Len(input) + room : room \in 0..MaxHeadroom} \cup {DEFAULT_MAX_SIZE}
    /\ \E env \in CorpusEnvs(input) :
        /\ corpus = env.corpus
        /\ current = env.current
        /\ tokens = env.tokens
        /\ cmps = env.cmps
    /\ mutation = NoMutation
    /\ TokIdle
    /\ DrvIdle
    /\ FindIdle

CorpusNext == CrossoverInsert \/ CrossoverReplace \/ Splice

CorpusSpec == CorpusInit /\ [][CorpusNext]_vars

(***************************************************************************)
(* The Tokens metadata of token_mutations.rs and the token file it loads.  *)
(* A file is the sequence of its bytes; a str is the sequence of the bytes *)
(* of its UTF-8 encoding.                                                  *)
(***************************************************************************)
\* mutations.rs:1551
backslash == 92
\* token_mutations.rs:85, the quote that starts and ends an item
Quote == 34
\* token_mutations.rs:82, the first char of a comment line
Hash == 35

Ok(val) == [ok |-> TRUE, val |-> val]
Err(kind) == [ok |-> FALSE, err |-> kind]

\* a continuation byte of a UTF-8 encoding
utf8_continuation(b) == b \in 128..191

\* the number of bytes of the char whose encoding starts with the byte b
utf8_char_width(b) ==
    IF b < 128 THEN 1 ELSE IF b < 224 THEN 2 ELSE IF b < 240 THEN 3 ELSE 4

\* String::from_utf8 as read_line applies it to the bytes of a line
RECURSIVE valid_utf8(_)
valid_utf8(s) ==
    IF s = <<>> THEN TRUE
    ELSE LET b == s[1]
             n == Len(s)
             second == IF b = 224 THEN 160..191
                       ELSE IF b = 237 THEN 128..159
                       ELSE IF b = 240 THEN 144..191
                       ELSE IF b = 244 THEN 128..143
                       ELSE 128..191
         IN  IF b < 128 THEN valid_utf8(Tail(s))
             ELSE IF b \in 194..223
                  THEN n >= 2 /\ utf8_continuation(s[2]) /\ valid_utf8(SubSeq(s, 3, n))
             ELSE IF b \in 224..239
                  THEN n >= 3 /\ s[2] \in second /\ utf8_continuation(s[3])
                          /\ valid_utf8(SubSeq(s, 4, n))
             ELSE IF b \in 240..244
                  THEN n >= 4 /\ s[2] \in second /\ utf8_continuation(s[3])
                          /\ utf8_continuation(s[4]) /\ valid_utf8(SubSeq(s, 5, n))
             ELSE FALSE

\* str::chars of a valid str: the chars in order, each as the bytes of its encoding
RECURSIVE chars(_)
chars(s) ==
    IF s = <<>> THEN <<>>
    ELSE LET w == utf8_char_width(s[1])
         IN  <<SubSeq(s, 1, w)>> \o chars(SubSeq(s, w + 1, Len(s)))

\* the chars with the White_Space property, which trim_start and trim_end remove
White_Space ==
    {<<b>> : b \in {9, 10, 11, 12, 13, 32}}
        \cup {<<194, 133>>, <<194, 160>>, <<225, 154, 128>>}
        \cup {<<226, 128, b>> : b \in (128..138) \cup {168, 169, 175}}
        \cup {<<226, 129, 159>>, <<227, 128, 128>>}

RECURSIVE trim_start(_)
trim_start(s) ==
    IF s = <<>> THEN s
    ELSE LET w == utf8_char_width(s[1])
         IN  IF SubSeq(s, 1, w) \in White_Space
             THEN trim_start(SubSeq(s, w + 1, Len(s)))
             ELSE s

\* the byte index at which the last char of s starts, from 1
last_char_start(s) ==
    CHOOSE i \in 1..Len(s) :
        /\ ~utf8_continuation(s[i])
        /\ \A j \in (i + 1)..Len(s) : utf8_continuation(s[j])

RECURSIVE trim_end(_)
trim_end(s) ==
    IF s = <<>> THEN s
    ELSE LET i == last_char_start(s)
         IN  IF SubSeq(s, i, Len(s)) \in White_Space
             THEN trim_end(SubSeq(s, 1, i - 1))
             ELSE s

\* BufRead::lines: the bytes up to each LF, without the LF and without a CR
\* right before it; what follows the last LF is a line when it is not empty
RECURSIVE lines(_)
lines(bytes) ==
    IF bytes = <<>> THEN <<>>
    ELSE IF \A i \in 1..Len(bytes) : bytes[i] # 10 THEN <<bytes>>
    ELSE LET n == CHOOSE i \in 1..Len(bytes) :
                      bytes[i] = 10 /\ \A j \in 1..(i - 1) : bytes[j] # 10
             cr == n > 1 /\ bytes[n - 1] = 13
         IN  <<SubSeq(bytes, 1, IF cr THEN n - 2 ELSE n - 1)>>
                 \o lines(SubSeq(bytes, n + 1, Len(bytes)))

\* str::find of a one-byte char: the byte index from 0, if any
find(s, c) ==
    IF \E i \in 1..Len(s) : s[i] = c
    THEN Some((CHOOSE i \in 1..Len(s) : s[i] = c /\ \A j \in 1..(i - 1) : s[j] # c) - 1)
    ELSE None

\* chars().nth(n), n from 0
nth(s, n) == IF n < Len(chars(s)) THEN Some(chars(s)[n + 1]) ELSE None

is_char_boundary(s, i) ==
    i = 0 \/ i = Len(s) \/ (i < Len(s) /\ ~utf8_continuation(s[i + 1]))

\* str::get(from..to), indices from 0
get(s, from, to) ==
    IF from <= to /\ to <= Len(s) /\ is_char_boundary(s, from) /\ is_char_boundary(s, to)
    THEN Some(Slice(s, from, to))
    ELSE None

\* a from_hex that knows no lower-case digits
from_hex_no_lower_case(hex) ==
    IF hex \in 48..57 THEN Some(hex - 48)
    ELSE IF hex \in 65..70 THEN Some(hex - 55)
    ELSE None

\* from_hex: the value of a hex digit, if the byte is one
from_hex(hex) ==
    IF hex \in 48..57 THEN Some(hex - 48)
    ELSE IF hex \in 65..70 THEN Some(hex - 55)
    ELSE IF hex \in 97..102 THEN Some(hex - 87)
    ELSE None

\* the loop of str_decode from the byte at index i (from 1) on
RECURSIVE str_decode_loop(_, _, _, _, _, _)
str_decode_loop(item, i, token, take_next, take_next_two, decoded) ==
    IF i > Len(item) THEN Ok(token)
    ELSE LET c == item[i]
         IN  IF take_next_two = 1
             THEN IF from_hex(c) = None THEN Err("IllegalArgument")
                  ELSE str_decode_loop(item, i + 1, token, take_next, 2,
                                       (Unwrap(from_hex(c)) * 16) % 256)
             ELSE IF take_next_two = 2
             THEN IF from_hex(c) = None THEN Err("IllegalArgument")
                  ELSE str_decode_loop(item, i + 1,
                                       Append(token, decoded + Unwrap(from_hex(c))),
                                       take_next, 0, decoded + Unwrap(from_hex(c)))
             ELSE IF c # backslash \/ take_next
             THEN IF take_next /\ (c = 120 \/ c = 88)
                  THEN str_decode_loop(item, i + 1, token, FALSE, 1, decoded)
                  ELSE str_decode_loop(item, i + 1, Append(token, c), FALSE, 0, decoded)
             ELSE str_decode_loop(item, i + 1, token, TRUE, 0, decoded)

str_decode(item) == str_decode_loop(item, 1, <<>>, FALSE, 0, 0)

\* no byte string is twice in vec
NoDuplicates(vec) == \A i, j \in 1..Len(vec) : vec[i] = vec[j] => i = j

contains(vec, token) == \E i \in 1..Len(vec) : vec[i] = token

\* Tokens::new
Tokens_new(vec) == vec

\* an add_token without the check for a duplicate
add_token_unchecked(vec, token) == [token_vec |-> Append(vec, token), ret |-> TRUE]

\* Tokens::add_token: the token_vec after the call and what is returned
add_token(vec, token) ==
    IF contains(vec, token)
    THEN [token_vec |-> vec, ret |-> FALSE]
    ELSE [token_vec |-> Append(vec, token), ret |-> TRUE]

FileResult(vec, ret, entries) == [token_vec |-> vec, ret |-> ret, entries |-> entries]

\* the loop of add_tokens_from_file over the lines that are left
RECURSIVE read_lines(_, _, _)
read_lines(vec, rest, entries) ==
    IF rest = <<>> THEN FileResult(vec, "Ok", entries)
    ELSE IF ~valid_utf8(Head(rest)) THEN FileResult(vec, "Panic", entries)
    ELSE LET line == trim_end(trim_start(Head(rest)))
             start == nth(line, 0)
             pos_quote == find(line, Quote)
             item == get(line, Unwrap(pos_quote) + 1, Len(line) - 1)
             token == str_decode(Unwrap(item))
             added == add_token(vec, token.val)
         IN  IF line = <<>> \/ start = Some(<<Hash>>)
                 THEN read_lines(vec, Tail(rest), entries)
             ELSE IF pos_quote = None
                 THEN FileResult(vec, "IllegalArgument", entries)
             ELSE IF nth(line, Len(line) - 1) # Some(<<Quote>>)
                 THEN FileResult(vec, "IllegalArgument", entries)
             ELSE IF item = None
                 THEN FileResult(vec, "IllegalArgument", entries)
             ELSE IF Unwrap(item) = <<>>
                 THEN read_lines(vec, Tail(rest), entries)
             ELSE IF ~token.ok
                 THEN FileResult(vec, "IllegalArgument", entries)
             ELSE read_lines(added.token_vec, Tail(rest),
                             IF added.ret THEN entries + 1 ELSE entries)

\* Tokens::add_tokens_from_file.  file is None when File::open fails, and holds
\* the bytes of the file otherwise; read_error is Some(n) when a read of the
\* opened file fails after n lines came out of reader.lines(): the next item is
\* an Err and line.unwrap() panics, with the tokens of the n lines added
add_tokens_from_file(vec, file, read_error) ==
    IF file = None THEN FileResult(vec, "File", 0)
    ELSE IF read_error = None THEN read_lines(vec, lines(Unwrap(file)), 0)
    ELSE LET read == read_lines(vec, SubSeq(lines(Unwrap(file)), 1, Unwrap(read_error)), 0)
         IN  IF read.ret = "Ok"
             THEN FileResult(read.token_vec, "Panic", read.entries)
             ELSE read

\* Tokens::from_tokens_file: the result of loading into Tokens::new(vec![])
from_tokens_file(file, read_error) ==
    add_tokens_from_file(Tokens_new(<<>>), file, read_error)

\* where the reads of a file can fail: nowhere, or after any number of its
\* lines (after none of them when the path is the one of a directory)
ReadErrors(file) ==
    {None} \cup (IF file = None THEN {} ELSE {Some(n) : n \in 0..Len(lines(Unwrap(file)))})

(***************************************************************************)
(* Calls on a Tokens value: one constructor, then add_token and            *)
(* add_tokens_from_file in any order.                                      *)
(***************************************************************************)
MaxTokenCalls == 3
MaxNewLen == 2

\* the lines of the file of tests::test_read_tokens, in order
TestLines ==
    <<<<>>,
      <<35, 32, 99, 111, 109, 109, 101, 110, 116>>,                 \* # comment
      <<116, 111, 107, 101, 110, 49, 64, 49, 50, 51, 61,
        34, 65, 65, 65, 34>>,                                       \* token1@123="AAA"
      <<116, 111, 107, 101, 110, 49, 61,
        34, 65, 92, 120, 52, 49, 65, 34>>,                          \* token1="A\x41A"
      <<34, 65, 92, 65, 65, 34>>,                                   \* "A\AA"
      <<116, 111, 107, 101, 110, 50, 61, 34, 66, 34>>,              \* token2="B"
      <<32, 32, 32, 32, 32, 32, 32, 32>>>>

\* lines of other shapes
OtherLines ==
    {<<34, 92, 113, 34>>,                \* "\q"
     <<34, 92, 120, 52, 34>>,            \* "\x4"
     <<34, 92, 120, 52, 71, 34>>,        \* "\x4G"
     <<34, 92, 88, 52, 49, 34>>,         \* "\X41"
     <<34, 92, 120, 102, 70, 34>>,       \* "\xfF"
     <<34, 97, 92, 34>>,                 \* "a\"
     <<34, 92, 92, 34>>,                 \* "\\"
     <<34, 92, 34, 34>>,                 \* "\""
     <<34>>,                             \* "
     <<65, 65, 65>>,                     \* AAA
     <<34, 34>>,                         \* ""
     <<110, 61, 34, 97, 34, 98, 34>>,    \* n="a"b"
     <<34, 255, 34>>,                    \* a byte that is not UTF-8 between quotes
     <<34, 195, 169, 34>>,               \* a char of two bytes between quotes
     <<194, 160, 34, 66, 34, 9>>}        \* "B" between a no-break space and a tab

\* the bytes of a file with these lines, each line but the last ended by eol
RECURSIVE join(_, _)
join(ls, eol) ==
    IF ls = <<>> THEN <<>>
    ELSE IF Len(ls) = 1 THEN ls[1]
    ELSE ls[1] \o eol \o join(Tail(ls), eol)

SampleLines == {TestLines[i] : i \in 1..Len(TestLines)} \cup OtherLines

\* the file of tests::test_read_tokens
TestFile == join(TestLines, <<10>>)

SampleFiles ==
    {None, Some(TestFile)}
        \cup {Some(l) : l \in SampleLines}
        \cup {Some(join(<<TestLines[3], l>>, eol)) :
                  l \in {TestLines[4], TestLines[6], <<34, 92, 120, 52, 71, 34>>,
                         <<34, 255, 34>>},
                  eol \in {<<10>>, <<13, 10>>}}

SampleTokens == {<<65>>, <<66>>, <<65, 65, 65>>}
TokenVecs == UNION {[1..n -> SampleTokens] : n \in 0..MaxNewLen}

TokenCall(op, token, file, read_error, written, ret, added, entries, before, calls) ==
    [op |-> op, token |-> token, file |-> file, read_error |-> read_error,
     written |-> written, ret |-> ret, added |-> added, entries |-> entries,
     before |-> before, calls |-> calls]

\* a Tokens value exists and the process is running
HasTokens ==
    /\ token_call.op \in {"new", "from_tokens_file", "add_token", "add_tokens_from_file"}
    /\ token_call.op = "from_tokens_file" => token_call.ret = "Ok"
    /\ token_call.ret # "Panic"
    /\ token_call.calls < MaxTokenCalls

OtherPartsIdle ==
    /\ QuietAllocator
    /\ MutIdle
    /\ DrvIdle
    /\ FindIdle

TokInit ==
    /\ OtherPartsIdle
    /\ TokIdle

TokensNew(vec) ==
    /\ token_call.op = "none"
    /\ token_vec' = Tokens_new(vec)
    /\ token_call' = TokenCall("new", <<>>, None, None, None, "Ok", FALSE, 0, <<>>, 1)
    /\ UNCHANGED <<alloc_vars, shadow_query, mut_vars, drv_vars, find_vars>>

\* from_tokens_file of a file, which drops the Tokens value it was building on
\* an error or a panic; written is the token list the file was written
\* from, if it was
FromTokensFile(file, read_error, written) ==
    /\ token_call.op \in {"none", "written"}
    /\ LET res == from_tokens_file(file, read_error)
       IN  /\ token_vec' = IF res.ret = "Ok" THEN res.token_vec ELSE <<>>
           /\ token_call' = TokenCall("from_tokens_file", <<>>, file, read_error, written,
                                      res.ret, FALSE, res.entries, <<>>, 1)
    /\ UNCHANGED <<alloc_vars, shadow_query, mut_vars, drv_vars, find_vars>>

AddToken(token) ==
    /\ HasTokens
    /\ LET res == add_token(token_vec, token)
       IN  /\ token_vec' = res.token_vec
           /\ token_call' = TokenCall("add_token", token, None, None, None, "Ok", res.ret, 0,
                                      token_vec, token_call.calls + 1)
    /\ UNCHANGED <<alloc_vars, shadow_query, mut_vars, drv_vars, find_vars>>

AddTokensFromFile(file, read_error) ==
    /\ HasTokens
    /\ LET res == add_tokens_from_file(token_vec, file, read_error)
       IN  /\ token_vec' = res.token_vec
           /\ token_call' = TokenCall("add_tokens_from_file", <<>>, file, read_error, None,
                                      res.ret, FALSE, res.entries, token_vec,
                                      token_call.calls + 1)
    /\ UNCHANGED <<alloc_vars, shadow_query, mut_vars, drv_vars, find_vars>>

TokNew == \E vec \in TokenVecs : TokensNew(vec)
TokFromFile ==
    \E file \in SampleFiles : \E read_error \in ReadErrors(file) :
        FromTokensFile(file, read_error, None)
TokAdd == \E token \in SampleTokens \cup {<<>>} : AddToken(token)
TokAddFromFile ==
    \E file \in SampleFiles : \E read_error \in ReadErrors(file) :
        AddTokensFromFile(file, read_error)

TokNext == TokNew \/ TokFromFile \/ TokAdd \/ TokAddFromFile

TokSpec == TokInit /\ [][TokNext]_vars

(***************************************************************************)
(* Writing a token list to a file in the format of the dictionary files:   *)
(* one line "..." for each token, each byte written as it is or as \xNN,   *)
(* a backslash as \\ and a quote as \".  Then the file is loaded.          *)
(***************************************************************************)
MaxTokLen == 2
MaxWritten == 2

\* LF, quote, A, backslash, x and a byte that is not ASCII
TokenBytes == {10, 34, 65, 92, 120, 255}

hex_digit(n, upper) == IF n < 10 THEN 48 + n ELSE IF upper THEN 55 + n ELSE 87 + n

\* the ways of writing one byte of a token
encode_byte(b) ==
    {IF b \in {backslash, Quote} THEN <<backslash, b>> ELSE <<b>>}
        \cup {<<backslash, 120, hex_digit(b \div 16, upper), hex_digit(b % 16, upper)>> :
                  upper \in BOOLEAN}

RECURSIVE encodings(_)
encodings(token) ==
    IF token = <<>> THEN {<<>>}
    ELSE {first \o rest : first \in encode_byte(Head(token)), rest \in encodings(Tail(token))}

\* the files a token list can be written to
RECURSIVE written_files(_)
written_files(list) ==
    IF list = <<>> THEN {<<>>}
    ELSE {<<Quote>> \o item \o <<Quote, 10>> \o rest :
              item \in encodings(Head(list)), rest \in written_files(Tail(list))}

WrittenTokens == UNION {[1..n -> TokenBytes] : n \in 0..MaxTokLen}
WrittenLists ==
    {list \in UNION {[1..n -> WrittenTokens] : n \in 0..MaxWritten} : NoDuplicates(list)}

RoundTripInit ==
    /\ OtherPartsIdle
    /\ token_vec = <<>>
    /\ \E list \in WrittenLists : \E file \in written_files(list) :
        token_call = TokenCall("written", <<>>, Some(file), None, Some(list), "none", FALSE,
                               0, <<>>, 0)

RoundTripLoad ==
    /\ token_call.op = "written"
    /\ \E read_error \in ReadErrors(token_call.file) :
        FromTokensFile(token_call.file, read_error, token_call.written)

RoundTripSpec == RoundTripInit /\ [][RoundTripLoad]_vars

(***************************************************************************)
(* The fuzzer binary of libfuzzer_stb_image_concolic: main calls fuzz and  *)
(* expects Ok.  Each step of fuzz is a call into the library; what the     *)
(* call returns is drawn.                                                  *)
(***************************************************************************)
MaxImported == 2

\* the kinds of Error
ErrorKinds ==
    {"Serialize", "File", "EmptyOptional", "KeyNotFound", "IllegalArgument",
     "IllegalState", "NotImplemented", "ShuttingDown"}

\* the kinds an event manager does not signal
OtherErrorKinds == ErrorKinds \ {"ShuttingDown"}

\* fuzz returns ret to main by return or by `?`; main's expect panics on an Err
fuzz_returns(d, by, err, ret) ==
    Driver("done", d.concolic, d.restarted, d.count, by, err, ret,
           IF ret = "Ok" THEN "returned" ELSE "panicked")

\* a panic! or an unwrap of an Err inside fuzz
fuzz_panics(d, by, err) ==
    Driver("done", d.concolic, d.restarted, d.count, by, err, "none", "panicked")

fuzz_goes_on(d, pc) ==
    Driver(pc, d.concolic, d.restarted, d.count, d.by, d.err, d.fuzz, d.main)

DrvStep(next) ==
    /\ driver' = next
    /\ UNCHANGED <<alloc_vars, shadow_query, mut_vars, tok_vars, find_vars>>

\* main: Opt::from_args, which ends the process on --help or on an argument it
\* does not know; env::current_dir().unwrap(), which panics when the working
\* directory cannot be read; and the call of fuzz
Main(args, concolic, current_dir) ==
    /\ driver.pc = "idle"
    /\ DrvStep(IF args = "Exit"
               THEN Driver("done", FALSE, FALSE, 0, "Opt::from_args", "none", "none", "exited")
               ELSE IF current_dir = "Err"
               THEN Driver("done", concolic, FALSE, 0, "env::current_dir", "none", "none",
                           "panicked")
               ELSE Driver("setup", concolic, FALSE, 0, "none", "none", "none", "running"))

\* Err(ShuttingDown) => return Ok(()), every other Err => panic!
setup_error(d, err) ==
    IF err = "ShuttingDown"
    THEN fuzz_returns(d, "setup_restarting_mgr_std", err, "Ok")
    ELSE fuzz_panics(d, "setup_restarting_mgr_std", err)

\* setup_restarting_mgr_std returned an error
SetupFails(err) ==
    /\ driver.pc = "setup"
    /\ DrvStep(setup_error(driver, err))

\* setup_restarting_mgr_std returned Ok((state, restarting_mgr)): state is Some,
\* with count testcases in its corpus, in a restarted client
SetupOk(restarted, count) ==
    /\ driver.pc = "setup"
    /\ DrvStep(Driver("state", driver.concolic, restarted, IF restarted THEN count ELSE 0,
                      "none", "none", "none", "running"))

\* state.unwrap_or_else: StdState::new with OnDiskCorpus::new(objective_dir).unwrap()
NewState(res) ==
    /\ driver.pc = "state"
    /\ DrvStep(IF driver.restarted \/ res = "Ok"
               THEN fuzz_goes_on(driver, "executor")
               ELSE fuzz_panics(driver, "OnDiskCorpus::new", res))

\* InProcessExecutor::new(...)?
NewExecutor(res) ==
    /\ driver.pc = "executor"
    /\ DrvStep(IF res = "Ok"
               THEN fuzz_goes_on(driver, "load")
               ELSE fuzz_returns(driver, "InProcessExecutor::new", res, res))

\* if state.corpus().count() < 1 { load_initial_inputs(...).unwrap_or_else(panic) }
LoadInitialInputs(res, imported) ==
    /\ driver.pc = "load"
    /\ DrvStep(IF driver.count >= 1 THEN fuzz_goes_on(driver, "stages")
               ELSE IF res = "Ok"
               THEN Driver("stages", driver.concolic, driver.restarted, imported,
                           driver.by, driver.err, driver.fuzz, driver.main)
               ELSE fuzz_panics(driver, "load_initial_inputs", res))

\* if concolic: the shared memory of the concolic runtime, three unwraps
ConcolicShMem(res) ==
    /\ driver.pc = "stages"
    /\ DrvStep(IF ~driver.concolic \/ res = "Ok"
               THEN fuzz_goes_on(driver, "fuzz_loop")
               ELSE fuzz_panics(driver, "StdShMemProvider", res))

\* fuzzer.fuzz_loop(...)?
fuzz_loop_error(d, err) == fuzz_returns(d, "fuzz_loop", err, err)

\* fuzz_loop returns only with an error
FuzzLoopFails(err) ==
    /\ driver.pc = "fuzz_loop"
    /\ DrvStep(fuzz_loop_error(driver, err))

\* MyCommandConfigurator::spawn_child, which the concolic tracing stage calls
\* inside fuzz_loop for each input: input.to_file("cur_input")?, whose error
\* fuzz_loop returns, then Command::new("./target_symcc.out")...spawn()
\* .expect("failed to start process"), which panics when the process cannot be
\* started; with Ok(child) the loop goes on
spawn_child(d, to_file, spawn) ==
    IF to_file # "Ok" THEN fuzz_loop_error(d, to_file)
    ELSE IF spawn = "Err" THEN fuzz_panics(d, "spawn_child", "none")
    ELSE fuzz_goes_on(d, "fuzz_loop")

SpawnChild(to_file, spawn) ==
    /\ driver.pc = "fuzz_loop"
    /\ driver.concolic
    /\ DrvStep(spawn_child(driver, to_file, spawn))

DrvMain ==
    \E args \in {"Parsed", "Exit"}, concolic \in BOOLEAN, current_dir \in {"Ok", "Err"} :
        Main(args, concolic, current_dir)
DrvSetupFails == \E err \in ErrorKinds : SetupFails(err)
DrvSetupOk == \E restarted \in BOOLEAN, count \in 0..MaxImported : SetupOk(restarted, count)
DrvNewState == \E res \in {"Ok"} \cup OtherErrorKinds : NewState(res)
DrvNewExecutor == \E res \in {"Ok"} \cup OtherErrorKinds : NewExecutor(res)
DrvLoad ==
    \E res \in {"Ok"} \cup OtherErrorKinds, imported \in 0..MaxImported :
        LoadInitialInputs(res, imported)
DrvShMem == \E res \in {"Ok"} \cup OtherErrorKinds : ConcolicShMem(res)
DrvFuzzLoopFails == \E err \in ErrorKinds : FuzzLoopFails(err)
DrvSpawnChild ==
    \E to_file \in {"Ok", "File", "Serialize"}, spawn \in {"Ok", "Err"} :
        SpawnChild(to_file, spawn)

DrvNext ==
    \/ DrvMain \/ DrvSetupFails \/ DrvSetupOk \/ DrvNewState \/ DrvNewExecutor
    \/ DrvLoad \/ DrvShMem \/ DrvFuzzLoopFails \/ DrvSpawnChild

DrvInit ==
    /\ QuietAllocator
    /\ MutIdle
    /\ TokIdle
    /\ DrvIdle
    /\ FindIdle

DrvSpec == DrvInit /\ [][DrvNext]_vars

(***************************************************************************)
(* Allocator::find_metadata(ptr, hint_base), called on the tables that     *)
(* allocations build.  Addresses are scaled down, and so is the start      *)
(* value of offset_to_closest.                                             *)
(***************************************************************************)
\* how far from the chunks the pointers asked about lie
FindSlack == 4

\* alloc.rs:339, i64::max_value() in the integers of the model
i64_max_value == 2147483647

abs(x) == IF x < 0 THEN 0 - x ELSE x

\* metadatas.sort_by(|a, b| a.address.cmp(&b.address)) of the values of the table
RECURSIVE sort_by_address(_)
sort_by_address(metadatas) ==
    IF metadatas = {} THEN <<>>
    ELSE LET lowest == CHOOSE m \in metadatas : \A o \in metadatas : m.address <= o.address
         IN  <<lowest>> \o sort_by_address(metadatas \ {lowest})

\* the loop of find_metadata over the allocations that are left
RECURSIVE find_metadata_loop(_, _, _, _, _)
find_metadata_loop(metadatas, ptr, hint_base, offset_to_closest, closest) ==
    IF metadatas = <<>> THEN closest
    ELSE LET metadata == Head(metadatas)
             new_offset ==
                 IF hint_base = metadata.address
                 THEN abs(ptr - metadata.address)
                 ELSE MinOf(offset_to_closest, abs(ptr - metadata.address))
         IN  IF new_offset < offset_to_closest
             THEN find_metadata_loop(Tail(metadatas), ptr, hint_base, new_offset,
                                     Some(metadata))
             ELSE find_metadata_loop(Tail(metadatas), ptr, hint_base, offset_to_closest,
                                     closest)

find_metadata(table, ptr, hint_base) ==
    find_metadata_loop(sort_by_address({table[k] : k \in DOMAIN table}),
                       ptr, hint_base, i64_max_value, None)

\* the pointers find_metadata is asked about: from below the first chunk to
\* above the last address a chunk can end at
FindPtrs == (base_mapping_addr - FindSlack)..(AddrSpaceEnd + FindSlack)

\* the hints: none, the base of a chunk of the table, a user pointer
FindHints == {0} \cup {allocations[k].address : k \in DOMAIN allocations}
                 \cup DOMAIN allocations

FindMetadata(ptr, hint_base) ==
    /\ Alive
    /\ find_query' = [table |-> allocations, ptr |-> ptr, hint_base |-> hint_base,
                      ret |-> find_metadata(allocations, ptr, hint_base), called |-> TRUE]
    /\ UNCHANGED <<alloc_vars, shadow_query, mut_vars, tok_vars, drv_vars>>

FindStep == \E ptr \in FindPtrs, hint_base \in FindHints : FindMetadata(ptr, hint_base)

\* find_metadata is called between allocations; one choice of the options
FindInit ==
    /\ QuietAllocator
    /\ MutIdle
    /\ TokIdle
    /\ DrvIdle
    /\ FindIdle

FindNext == AllocStep \/ FindStep

FindSpec == FindInit /\ [][FindNext]_vars

(***************************************************************************)
(* The allocator with a limit on the total that two allocations exceed.    *)
(***************************************************************************)
LowTotalOptions ==
    [asan_max_allocation : {HighMaxAllocation},
     asan_max_allocation_panics : {FALSE},
     asan_max_total_allocation : {LowMaxTotal},
     enable_asan_allocation_backtraces : BOOLEAN]

TotalInit ==
    /\ AllocatorNew(LowTotalOptions)
    /\ shadow_query = NoQuery
    /\ MutIdle
    /\ TokIdle
    /\ DrvIdle
    /\ FindIdle

TotalSpec == TotalInit /\ [][Next]_vars

\* an is_managed that takes the user pointers of the first page for unmanaged
is_managed_above_first_page(ptr) ==
    base_mapping_addr + page_size < ptr /\ ptr < current_mapping_addr

\* Allocator::is_managed
is_managed(ptr) == base_mapping_addr <= ptr /\ ptr < current_mapping_addr

(***************************************************************************)
(* Claims about the allocator                                              *)
(***************************************************************************)
EffectiveSize(req) == IF req = 0 THEN MallocZeroSize ELSE req
RoundedSize(req) == round_up_to_page(EffectiveSize(req)) + 2 * page_size
Unpoisoned(sh, start, size) ==
    /\ \A a \in start..(start + size \div 8 - 1) : sh[a] = 255
    /\ (size % 8) > 0 => sh[start + size \div 8] = (255 * Pow2(8 - (size % 8))) % 256
QueuedChunks(queue) ==
    UNION {{queue[k][i] : i \in 1..Len(queue[k])} : k \in DOMAIN queue}

\* C3: a release of an allocation of the table leaves every shadow byte of
\* map_to_shadow(p) .. map_to_shadow(p) + ceil(size / 8) zero, and a release of
\* an allocation that is already freed reports DoubleFree.
C3_ReleasePoisonsThenDoubleFree ==
    [][\A p \in DOMAIN allocations :
        (last'.op = "release" /\ last'.arg = p /\ ~last'.panic) =>
            /\ \A i \in 0..((allocations[p].size + 7) \div 8 - 1) :
                    shadow'[map_to_shadow(p) + i] = 0
            /\ allocations'[p].freed
            /\ allocations[p].freed => last'.err = "DoubleFree"
            /\ ~allocations[p].freed => last'.err = "none"]_vars

C3_Witness ==
    /\ last.op = "release"
    /\ last.err = "DoubleFree"
    /\ (allocations[last.arg].size % 8) > 0

\* C4 as stated: a release of any pointer that is no key of the table, null
\* included, reports UnallocatedFree and changes nothing.
C4_Original ==
    [][(last'.op = "release" /\ last'.arg \notin DOMAIN allocations) =>
            /\ last'.err = "UnallocatedFree"
            /\ UNCHANGED <<allocations, allocation_queue, shadow,
                           total_allocation_size, current_mapping_addr>>]_vars

\* C4 amended: a release of a non-null pointer that is no key of the table
\* reports UnallocatedFree, a release of the null pointer reports nothing, and
\* neither changes the metadata or the shadow.
C4_UnallocatedFreeExceptNull ==
    [][(last'.op = "release" /\ last'.arg \notin DOMAIN allocations) =>
            /\ last'.arg # 0 => last'.err = "UnallocatedFree"
            /\ last'.arg = 0 => last'.err = "none"
            /\ UNCHANGED <<allocations, allocation_queue, shadow,
                           total_allocation_size, current_mapping_addr>>]_vars

C4_Witness ==
    /\ last.op = "release"
    /\ last.arg # 0
    /\ last.err = "UnallocatedFree"
    /\ DOMAIN allocations # {}

\* C5 as stated: a release that reports DoubleFree leaves the metadata of the
\* allocation (its release backtrace included) and the shadow as they were.
C5_DoubleFreeOnlyReports ==
    [][(last'.op = "release" /\ last'.err = "DoubleFree") =>
            allocations' = allocations /\ shadow' = shadow]_vars

\* C6 as stated: for any address a, map_to_shadow(a) = map_to_shadow(a+1) =
\* map_to_shadow(a+7) and map_to_shadow(a+8) = map_to_shadow(a) + 1.
C6_Original ==
    shadow_query.at # <<>> =>
        /\ shadow_query.at[1] = shadow_query.at[2]
        /\ shadow_query.at[1] = shadow_query.at[3]
        /\ shadow_query.at[4] = shadow_query.at[1] + 1

\* C6 amended: for any address a that is a multiple of 8, map_to_shadow(a) =
\* map_to_shadow(a+1) = map_to_shadow(a+7); for any address a whose granule
\* (a >> 3) & mask is not the last one of the mask, map_to_shadow(a+8) =
\* map_to_shadow(a) + 1, and at the last granule map_to_shadow(a+8) wraps to
\* shadow_offset.
C6_ShadowMappingAligned ==
    shadow_query.at # <<>> =>
        LET a == shadow_query.address
            last_granule == LowBits(a \div 8, shadow_bit + 1) = Pow2(shadow_bit + 1) - 1
        IN /\ (a % 8) = 0 =>
                /\ shadow_query.at[1] = shadow_query.at[2]
                /\ shadow_query.at[1] = shadow_query.at[3]
           /\ ~last_granule => shadow_query.at[4] = shadow_query.at[1] + 1
           /\ last_granule => shadow_query.at[4] = shadow_offset

C6_Witness ==
    /\ shadow_query.at # <<>>
    /\ (shadow_query.address % 8) = 0
    /\ shadow_query.address >= base_mapping_addr
    /\ shadow_query.at[4] = shadow_query.at[1] + 1

\* C7: from construction, after p1 = alloc(a); alloc(b); release(p1); reset();
\* the next alloc(a) returns p1, recycled from the freelist, the freelist no longer
\* holds the chunk, and the shadow of [p1, p1 + size) is unpoisoned; and whenever
\* alloc recycles a chunk, it is one of the smallest rounded size on the freelist
\* that is >= the rounded size asked for.
C7_RecycleAfterReset ==
    /\ [](e4.stage = 5 =>
            /\ last.ret = e4.p1
            /\ last.how = "recycled"
            /\ e4.p1 \in DOMAIN allocations
            /\ \A m \in QueuedChunks(allocation_queue) : m.address + page_size # e4.p1
            /\ allocations[e4.p1].size = EffectiveSize(e4.a)
            /\ Unpoisoned(shadow, map_to_shadow(e4.p1), EffectiveSize(e4.a)))
    /\ [][(last'.op = "alloc" /\ last'.how = "recycled") =>
            LET got == allocations'[last'.ret].actual_size
            IN /\ got >= RoundedSize(last'.arg)
               /\ \A m \in QueuedChunks(allocation_queue) :
                    m.actual_size >= RoundedSize(last'.arg) => got <= m.actual_size]_vars

C7_Witness ==
    /\ e4.stage = 5
    /\ (e4.a % 8) > 0
    /\ Cardinality(DOMAIN allocations) > 1

\* C8: an alloc whose effective size exceeds asan_max_allocation returns null, or
\* panics when asan_max_allocation_panics is set; an alloc whose rounded size
\* would take total_allocation_size above asan_max_total_allocation returns null;
\* both leave the table, the freelist, the counter and the cursor unchanged.
C8_RejectedAllocChangesNothing ==
    [][last'.op = "alloc" =>
        LET size == EffectiveSize(last'.arg)
            too_large == size > options.asan_max_allocation
            over_total == total_allocation_size + RoundedSize(last'.arg)
                              > options.asan_max_total_allocation
        IN /\ too_large =>
                /\ last'.panic = options.asan_max_allocation_panics
                /\ last'.ret = 0
           /\ (~too_large /\ over_total) => (last'.ret = 0 /\ ~last'.panic)
           /\ (too_large \/ over_total) =>
                UNCHANGED <<allocations, allocation_queue, total_allocation_size,
                            current_mapping_addr>>]_vars

C8_Witness ==
    /\ last.op = "alloc"
    /\ last.ret = 0
    /\ ~last.panic
    /\ EffectiveSize(last.arg) <= options.asan_max_allocation
    /\ total_allocation_size + RoundedSize(last.arg) > options.asan_max_total_allocation
    /\ total_allocation_size > 0

\* C9 as stated: after alloc(0) returns p, the metadata of p has size 16 and
\* is_malloc_zero set, fresh or recycled; after alloc(n), n > 0, it is not set.
C9_MallocZeroFlag ==
    (last.op = "alloc" /\ last.ret # 0) =>
        /\ last.arg = 0 => (allocations[last.ret].size = MallocZeroSize
                            /\ allocations[last.ret].is_malloc_zero)
        /\ last.arg > 0 => ~allocations[last.ret].is_malloc_zero

\* C10: after reset the table holds exactly the allocations that were not freed,
\* under their user pointer and with their metadata unchanged; every freed one
\* is on the freelist under its actual_size with size 0, freed false and no
\* backtrace, and its shadow is poisoned; total_allocation_size is 0.
C10_Reset ==
    [][last'.op = "reset" =>
        LET live == {p \in DOMAIN allocations : ~allocations[p].freed}
            dead == {p \in DOMAIN allocations : allocations[p].freed}
        IN /\ DOMAIN allocations' = live
           /\ \A p \in live : /\ allocations'[p] = allocations[p]
                              /\ p = allocations[p].address + page_size
           /\ \A p \in dead :
                /\ allocations[p].actual_size \in DOMAIN allocation_queue'
                /\ \E i \in 1..Len(allocation_queue'[allocations[p].actual_size]) :
                     allocation_queue'[allocations[p].actual_size][i] =
                        [allocations[p] EXCEPT !.size = 0, !.freed = FALSE,
                                               !.allocation_site_backtrace = None,
                                               !.release_site_backtrace = None]
                /\ \A a \in ShadowWritten(map_to_shadow(p), allocations[p].size) :
                     shadow'[a] = 0
           /\ total_allocation_size' = 0]_vars

C10_Witness ==
    /\ last.op = "reset"
    /\ DOMAIN allocations # {}
    /\ QueuedChunks(allocation_queue) # {}
    /\ options.enable_asan_allocation_backtraces

(***************************************************************************)
(* Claims about the mutators                                               *)
(***************************************************************************)
\* C1 as stated: for every mutator and every input no longer than max_size, the
\* input is no longer than max_size after mutate returns, whatever the random
\* choices and the lengths of the other corpus entries and of the tokens.
C1_MaxSizeKept ==
    [][(mutation'.mutator # "none" /\ mutation'.result # "Panic"
            /\ Len(input) <= max_size) =>
            Len(input') <= max_size']_vars

\* C2 as stated: whenever a mutator returns Skipped, the bytes of the input after
\* the call are the bytes before the call.
C2_SkippedLeavesInput ==
    [][mutation'.result = "Skipped" => input' = input]_vars


(***************************************************************************)
(* Claims about the Tokens metadata and the token file                     *)
(***************************************************************************)
\* C11: a Tokens value never holds the same byte string twice, however it was
\* constructed and whatever was added to it; add_token returns false and
\* changes nothing exactly when the token is already there, and otherwise
\* appends the token and returns true.
C11_NoDuplicateTokens ==
    /\ NoDuplicates(token_vec)
    /\ token_call.op = "add_token" =>
        IF contains(token_call.before, token_call.token)
        THEN ~token_call.added /\ token_vec = token_call.before
        ELSE token_call.added /\ token_vec = Append(token_call.before, token_call.token)


\* the number of bytes of s equal to b
RECURSIVE count_byte(_, _)
count_byte(s, b) ==
    IF s = <<>> THEN 0 ELSE (IF Head(s) = b THEN 1 ELSE 0) + count_byte(Tail(s), b)

\* the file was written from a list of tokens and then loaded, every read of
\* it succeeding
WrittenAndLoaded ==
    /\ token_call.op = "from_tokens_file"
    /\ token_call.written # None
    /\ token_call.read_error = None

\* no token of the list is empty, and LF and the bytes that are not ASCII were
\* written as \xNN: the file is ASCII and has one LF for each token
WrittenPlainly ==
    LET list == Unwrap(token_call.written)
        file == Unwrap(token_call.file)
    IN  /\ \A i \in 1..Len(list) : list[i] # <<>>
        /\ \A i \in 1..Len(file) : file[i] < 128
        /\ count_byte(file, 10) = Len(list)

\* C12 as stated: any list of distinct tokens, written with each byte as it is
\* or as \xNN, loads to exactly that list.
C12_Original ==
    WrittenAndLoaded =>
        /\ token_call.ret = "Ok"
        /\ token_vec = Unwrap(token_call.written)

\* C12: a list of N distinct tokens, none empty, written one per line with LF
\* and every byte that is not ASCII as \xNN, loads to exactly those N tokens
\* in the order written, and N is the count returned.
C12_RoundTrip ==
    (WrittenAndLoaded /\ WrittenPlainly) =>
        /\ token_call.ret = "Ok"
        /\ token_vec = Unwrap(token_call.written)
        /\ token_call.entries = Len(Unwrap(token_call.written))

\* two tokens came back, with an escaped backslash before an x and with LF and
\* a byte that is not ASCII written as \xNN
C12_Witness ==
    /\ WrittenAndLoaded
    /\ WrittenPlainly
    /\ token_call.written = Some(<<<<92, 120>>, <<10, 255>>>>)
    /\ token_vec = <<<<92, 120>>, <<10, 255>>>>


\* a load of a file that returned Ok
Loaded ==
    /\ token_call.op \in {"from_tokens_file", "add_tokens_from_file"}
    /\ token_call.ret = "Ok"

\* the lines of a file, trimmed, that are neither blank nor comments
RECURSIVE token_lines(_)
token_lines(ls) ==
    IF ls = <<>> THEN <<>>
    ELSE LET line == trim_end(trim_start(Head(ls)))
         IN  IF line = <<>> \/ line[1] = Hash
             THEN token_lines(Tail(ls))
             ELSE <<line>> \o token_lines(Tail(ls))

\* what is between the first quote of a line and its last char
item_of(line) == Slice(line, Unwrap(find(line, Quote)) + 1, Len(line) - 1)

\* the decoded items of the lines, in order, without the empty items
RECURSIVE decoded_items(_)
decoded_items(ls) ==
    IF ls = <<>> THEN <<>>
    ELSE IF item_of(Head(ls)) = <<>> THEN decoded_items(Tail(ls))
    ELSE <<str_decode(item_of(Head(ls))).val>> \o decoded_items(Tail(ls))

\* the entries of seq that are not in seen, each once, in the order of their
\* first appearance
RECURSIVE first_appearances(_, _)
first_appearances(seq, seen) ==
    IF seq = <<>> THEN <<>>
    ELSE IF contains(seen, Head(seq)) THEN first_appearances(Tail(seq), seen)
    ELSE <<Head(seq)>> \o first_appearances(Tail(seq), Append(seen, Head(seq)))

\* C13: a load that succeeds skips blank lines and comments, takes what is
\* between the first quote and the end of each other line, decodes it, and
\* appends each decoded token that is new once, in the order of first
\* appearance; the count returned is the number appended.  The file of
\* test_read_tokens, read to its end, loads, and its tokens are AAA and B.
C13_LoadDistinctInOrder ==
    /\ Loaded =>
        LET new == first_appearances(
                       decoded_items(token_lines(lines(Unwrap(token_call.file)))),
                       token_call.before)
        IN  /\ token_vec = token_call.before \o new
            /\ token_call.entries = Len(new)
    /\ (/\ token_call.op = "from_tokens_file"
        /\ token_call.file = Some(TestFile)
        /\ token_call.read_error = None) =>
        /\ token_call.ret = "Ok"
        /\ token_vec = <<<<65, 65, 65>>, <<66>>>>
        /\ token_call.entries = 2

\* the file of test_read_tokens was loaded into a new Tokens value
C13_Witness ==
    /\ token_call.op = "from_tokens_file"
    /\ token_call.file = Some(TestFile)
    /\ token_call.read_error = None
    /\ token_vec = <<<<65, 65, 65>>, <<66>>>>


\* the item has no backslash escape other than \xNN with two hex digits, \\
\* and \"
RECURSIVE well_escaped(_)
well_escaped(item) ==
    LET n == Len(item)
        hex == (48..57) \cup (65..70) \cup (97..102)
    IN  IF item = <<>> THEN TRUE
        ELSE IF item[1] # backslash THEN well_escaped(Tail(item))
        ELSE IF n >= 2 /\ item[2] \in {backslash, Quote}
             THEN well_escaped(SubSeq(item, 3, n))
        ELSE IF n >= 4 /\ item[2] = 120 /\ item[3] \in hex /\ item[4] \in hex
             THEN well_escaped(SubSeq(item, 5, n))
        ELSE FALSE

\* a file was read to its end or to an error, and one of its lines has a
\* quoted item with another escape
BadEscapeRead ==
    /\ token_call.op \in {"from_tokens_file", "add_tokens_from_file"}
    /\ token_call.file # None
    /\ token_call.read_error = None
    /\ token_call.ret # "Panic"
    /\ LET ls == token_lines(lines(Unwrap(token_call.file)))
       IN  \E i \in 1..Len(ls) :
               /\ find(ls[i], Quote) # None
               /\ ls[i][Len(ls[i])] = Quote
               /\ Len(ls[i]) >= 2
               /\ ~well_escaped(item_of(ls[i]))

\* C14: a quoted token with a backslash escape other than \xNN, \\ and \"
\* makes the load return IllegalArgument.
C14_OtherEscapesRejected == BadEscapeRead => token_call.ret = "IllegalArgument"


\* a call of one of the three mutators that read the corpus
CorpusMutators == {"CrossoverInsertMutator", "CrossoverReplaceMutator", "SpliceMutator"}

\* C15: CrossoverInsert, CrossoverReplace and Splice never load the input of
\* the testcase at corpus.current(); when the index drawn is the current one
\* they return Skipped and leave the input as it was.
C15_CurrentNeverRead ==
    [][(mutation'.mutator \in CorpusMutators /\ current # None) =>
            /\ mutation'.read # current
            /\ mutation'.idx = current =>
                    (mutation'.result = "Skipped" /\ input' = input)]_vars

\* the second of two testcases is the current one and its index was drawn
C15_Witness ==
    /\ mutation.mutator \in CorpusMutators
    /\ Len(corpus) = 2
    /\ current = Some(1)
    /\ mutation.idx = Some(1)
    /\ mutation.result = "Skipped"


\* SpliceMutator is called on the input of the testcase at index 0 of the
\* corpus of scenario E2, index 0 is the current one and index 1 is drawn
E2Splice ==
    /\ mutation'.mutator = "SpliceMutator"
    /\ corpus = <<<<0, 1, 2, 3>>, <<0, 255, 2, 3>>>>
    /\ current = Some(0)
    /\ input = corpus[1]
    /\ mutation'.idx = Some(1)

\* C16 as stated: the output begins with 0x00, ends with 0x02, 0x03 and has
\* the other input's 0xFF at position 1.
C16_Original ==
    [][E2Splice =>
            /\ Len(input') >= 3
            /\ input'[1] = 0
            /\ input'[2] = 255
            /\ SubSeq(input', Len(input') - 1, Len(input')) = <<2, 3>>]_vars

\* C16: the two inputs of scenario E2 differ at position 1 only, so the call
\* returns Skipped and the input stays 0x00, 0x01, 0x02, 0x03.
C16_SingleDiffSkipped ==
    [][E2Splice =>
            /\ mutation'.result = "Skipped"
            /\ input' = <<0, 1, 2, 3>>]_vars

\* the call of scenario E2 has returned
C16_Witness ==
    /\ mutation.mutator = "SpliceMutator"
    /\ corpus = <<<<0, 1, 2, 3>>, <<0, 255, 2, 3>>>>
    /\ current = Some(0)
    /\ mutation.idx = Some(1)
    /\ mutation.read = Some(1)
    /\ input = <<0, 1, 2, 3>>


\* the corpus cannot supply another testcase: it is empty, or its only entry is
\* the current one
CorpusTooSmall == corpus = <<>> \/ (Len(corpus) = 1 /\ current = Some(0))

\* the metadata the mutator called name reads is absent or empty, or the corpus
\* it reads is too small
MissingForMutator(name) ==
    \/ name \in {"TokenInsert", "TokenReplace"}
        /\ (tokens = None \/ tokens = Some(<<>>))
    \/ name = "I2SRandReplace" /\ (cmps = None \/ cmps = Some(<<>>))
    \/ name \in CorpusMutators /\ CorpusTooSmall

\* C17: a mutator called on an empty input, without the metadata it reads, or
\* with a corpus too small to supply another testcase returns Ok: never an
\* error, never a panic; without its metadata or another testcase it returns
\* Skipped.
C17_MissingIsSkipped ==
    [][mutation'.mutator # "none" =>
            /\ (input = <<>> \/ MissingForMutator(mutation'.mutator)) =>
                    mutation'.result \in {"Skipped", "Mutated"}
            /\ MissingForMutator(mutation'.mutator) =>
                    mutation'.result = "Skipped"]_vars


(***************************************************************************)
(* Claims about the fuzzer binary                                          *)
(***************************************************************************)
\* C18: when ShuttingDown is signaled, by the setup of the restarting event
\* manager or out of fuzz_loop, fuzz returns Ok(()) and main does not panic;
\* every other error ends the process with a failure.
C18_ShuttingDownIsSuccess ==
    /\ driver.err = "ShuttingDown" => (driver.fuzz = "Ok" /\ driver.main = "returned")
    /\ driver.err \in OtherErrorKinds => driver.main = "panicked"


(***************************************************************************)
(* More claims about the mutators                                          *)
(***************************************************************************)
\* the positions within the common prefix at which the two differ
DiffPositions(this, other) ==
    {i \in 0..(MinOf(Len(this), Len(other)) - 1) : this[i + 1] # other[i + 1]}

\* SpliceMutator has loaded the input of another testcase
SpliceRead == mutation'.mutator = "SpliceMutator" /\ mutation'.read # None

\* C19: with first and last the first and the last position at which the input
\* and the other input differ, SpliceMutator returns Skipped when there is no
\* such position or first = last, and in every other case returns Mutated with
\* the input up to a split point s, first < s <= last, followed by the other
\* input from s on.
C19_SplitAfterFirstDiff ==
    [][SpliceRead =>
            LET other == corpus[Unwrap(mutation'.read) + 1]
                diffs == DiffPositions(input, other)
                first_diff == Min(diffs)
                last_diff == MaxIn(diffs)
            IN  IF diffs = {} \/ first_diff = last_diff
                THEN mutation'.result = "Skipped" /\ input' = input
                ELSE /\ mutation'.result = "Mutated"
                     /\ \E s \in (first_diff + 1)..last_diff :
                            input' = Slice(input, 0, s) \o Slice(other, s, Len(other))]_vars


\* a call of I2SRandReplace that gets as far as drawing a compare and an offset
I2SCall ==
    /\ mutation'.mutator = "I2SRandReplace"
    /\ input # <<>>
    /\ cmps # None
    /\ Unwrap(cmps) # <<>>

\* the windows of the input that I2SRandReplace compares for the operands v from
\* the offset off on, each with the bytes it is replaced by: [at, size, new]
i2s_windows(bytes, v, off) ==
    LET len == Len(bytes)
        width == CASE v.kind = "U8" -> 1 [] v.kind = "U16" -> 2
                   [] v.kind = "U32" -> 4 [] OTHER -> 8
        window(i, size) == Slice(bytes, i, i + size)
        Hit(i, size, new) == [at |-> i, size |-> size, new |-> new]
    IN  IF v.kind = "Bytes"
        THEN UNION {{Hit(i, size, Slice(v.v1, 0, MinOf(size, Len(v.v1)))) :
                        size \in {n \in 1..MinOf(Len(v.v0), len - i) :
                                      Slice(v.v0, 0, n) = window(i, n)}}
                    \cup {Hit(i, size, Slice(v.v0, 0, MinOf(size, Len(v.v0)))) :
                        size \in {n \in 1..MinOf(Len(v.v1), len - i) :
                                      Slice(v.v1, 0, n) = window(i, n)}} :
                    i \in off..(len - 1)}
        ELSE UNION {{Hit(i, width, to_ne_bytes(v.v1)) : x \in {v.v0} \cap {from_ne_bytes(window(i, width))}}
                    \cup {Hit(i, width, to_ne_bytes(swap_bytes(v.v1))) :
                            x \in {v.v0} \cap {swap_bytes(from_ne_bytes(window(i, width)))}}
                    \cup {Hit(i, width, to_ne_bytes(v.v0)) :
                            x \in {v.v1} \cap {from_ne_bytes(window(i, width))}}
                    \cup {Hit(i, width, to_ne_bytes(swap_bytes(v.v0))) :
                            x \in {v.v1} \cap {swap_bytes(from_ne_bytes(window(i, width)))}} :
                    i \in off..(len - width)}

\* C20: for the compare and the offset drawn, I2SRandReplace looks at the windows
\* from the offset to the end of the input; at the first window equal to an
\* operand or to its byte-swapped value (for Bytes operands: to a non-empty prefix
\* of an operand) it overwrites that window with the counterpart operand in the
\* byte order observed, changes nothing else and returns Mutated; it returns
\* Skipped, with the input unchanged, exactly when there is no such window.
C20_FirstWindowReplaced ==
    [][I2SCall =>
            \E idx \in 0..(Len(Unwrap(cmps)) - 1), off \in 0..(Len(input) - 1) :
                LET hits == i2s_windows(input, Unwrap(cmps)[idx + 1], off)
                    first_at == Min({h.at : h \in hits})
                IN  IF hits = {}
                    THEN mutation'.result = "Skipped" /\ input' = input
                    ELSE /\ mutation'.result = "Mutated"
                         /\ \E h \in hits :
                                /\ h.at = first_at
                                /\ input' = Slice(input, 0, h.at) \o h.new
                                              \o Slice(input, h.at + Len(h.new), Len(input))]_vars


(***************************************************************************)
(* Claims about find_metadata                                              *)
(***************************************************************************)
FindCalled == find_query.called /\ DOMAIN find_query.table # {}

\* the allocations of the table asked whose base is at the least distance from ptr
ClosestTo(ptr) ==
    LET table == find_query.table
    IN  {table[k] : k \in {k \in DOMAIN table :
            \A o \in DOMAIN table :
                abs(ptr - table[k].address) <= abs(ptr - table[o].address)}}

HintedAt(hint_base) ==
    {find_query.table[k] : k \in {k \in DOMAIN find_query.table :
                                      find_query.table[k].address = hint_base}}

\* C21: over a non-empty table find_metadata never returns None; when an
\* allocation has its base at the hint, that allocation is returned, even if the
\* base of another one is closer to the pointer; otherwise the allocation
\* returned is one whose base is at the least distance from the pointer.
C21_HintTakesPrecedence ==
    FindCalled =>
        /\ find_query.ret # None
        /\ IF HintedAt(find_query.hint_base) # {}
           THEN find_query.ret \subseteq HintedAt(find_query.hint_base)
           ELSE find_query.ret \subseteq ClosestTo(find_query.ptr)

(***************************************************************************)
(* Claims about the mutators that insert and swap bytes                    *)
(***************************************************************************)
\* old with l bytes of the value val put in at the offset o
Inserted(old, o, l, val) ==
    Slice(old, 0, o) \o [i \in 1..l |-> val] \o Slice(old, o, Len(old))

\* the call of the mutator name has returned Mutated
ReturnedMutated(name) == mutation'.mutator = name /\ mutation'.result = "Mutated"

\* the output is the input with a run of one value from fill put in at some offset
InsertedRun(fill) ==
    \E o \in 0..Len(input), val \in fill :
        /\ Len(input') > Len(input)
        /\ input' = Inserted(input, o, Len(input') - Len(input), val)

\* C22: when BytesExpandMutator returns Mutated, the output is the input with l >= 1
\* bytes 0x00 put in at an offset o in [0, size]: the new region [o, o + l) is all
\* zero and the old tail is shifted right by l.  BytesInsertMutator and
\* BytesRandInsertMutator give the same shape with the new region filled with one
\* byte of the input, resp. with one random byte.
C22_ExpandedRegionIsZero ==
    [][/\ ReturnedMutated("BytesExpandMutator") => InsertedRun({0})
       /\ ReturnedMutated("BytesInsertMutator") =>
              InsertedRun({input[i] : i \in 1..Len(input)})
       /\ ReturnedMutated("BytesRandInsertMutator") => InsertedRun(RandBytes)]_vars


\* out is old with the slices of length len at first and at second swapped
Swapped(old, out, first, second, len) ==
    /\ Len(out) = Len(old)
    /\ Slice(out, first, first + len) = Slice(old, second, second + len)
    /\ Slice(out, second, second + len) = Slice(old, first, first + len)
    /\ \A i \in 1..Len(old) :
           (i - 1 \notin first..(first + len - 1) /\ i - 1 \notin second..(second + len - 1))
               => out[i] = old[i]
    /\ \A b \in 0..255 : count_byte(out, b) = count_byte(old, b)

\* the positions and the length BytesSwapMutator drew
SwapDrawn ==
    /\ ReturnedMutated("BytesSwapMutator")
    /\ 1 <= Unwrap(mutation'.len)
    /\ Unwrap(mutation'.len)
           <= Len(input) - Max(Unwrap(mutation'.first), Unwrap(mutation'.second))

\* the slices of length len at first and at second share a position
Overlapping(first, second, len) == first # second /\ abs(first - second) < len

\* C23 as stated: for every choice of first, second and len, 1 <= len <= size -
\* max(first, second), overlapping slices included, BytesSwapMutator leaves the
\* slice that was at second at first and the slice that was at first at second,
\* every other byte, the length and the multiset of bytes unchanged.
C23_Original ==
    [][ReturnedMutated("BytesSwapMutator") =>
            /\ SwapDrawn
            /\ Swapped(input, input', Unwrap(mutation'.first), Unwrap(mutation'.second),
                       Unwrap(mutation'.len))]_vars

\* C23 amended: the slices are swapped as stated for every choice in which they
\* do not overlap.  When they overlap, the slice at second gets what was at
\* first, the positions of the slice at first outside the slice at second get
\* what was at second, every other byte and the length are unchanged.
C23_DisjointSlicesSwapped ==
    [][ReturnedMutated("BytesSwapMutator") =>
            LET first == Unwrap(mutation'.first)
                second == Unwrap(mutation'.second)
                len == Unwrap(mutation'.len)
            IN  /\ SwapDrawn
                /\ IF ~Overlapping(first, second, len)
                   THEN Swapped(input, input', first, second, len)
                   ELSE /\ Len(input') = Len(input)
                        /\ Slice(input', second, second + len)
                               = Slice(input, first, first + len)
                        /\ \A i \in 0..(Len(input) - 1) :
                               i \notin second..(second + len - 1) =>
                                   input'[i + 1] =
                                       IF i \in first..(first + len - 1)
                                       THEN input[i - first + second + 1]
                                       ELSE input[i + 1]]_vars

\* BytesSwapMutator has swapped two slices of more than one byte that do not
\* overlap, and the input has changed
C23_Witness ==
    /\ mutation.mutator = "BytesSwapMutator"
    /\ mutation.result = "Mutated"
    /\ Unwrap(mutation.len) = 2
    /\ ~Overlapping(Unwrap(mutation.first), Unwrap(mutation.second), 2)
    /\ input = <<2, 3, 0, 1>>


(***************************************************************************)
(* More claims about the allocator                                         *)
(***************************************************************************)
\* the addresses of the region of a chunk
Region(metadata) == metadata.address..(metadata.address + metadata.actual_size - 1)

\* the allocations of the table that release has marked freed
FreedKeys == {p \in DOMAIN allocations : allocations[p].freed}

\* C24: while a freed allocation is in the table, no alloc returns its pointer
\* or any pointer inside its region; a freed allocation stays in the table, freed,
\* until reset is called, and only reset puts chunks on the freelist, from which
\* alloc recycles.
C24_FreedIsQuarantined ==
    /\ [][(last'.op = "alloc" /\ last'.ret # 0) =>
            \A p \in FreedKeys : last'.ret \notin Region(allocations[p])]_vars
    /\ [][last'.op # "reset" =>
            /\ \A p \in FreedKeys : p \in DOMAIN allocations' /\ allocations'[p].freed
            /\ QueuedChunks(allocation_queue') \subseteq QueuedChunks(allocation_queue)]_vars
    /\ [][(last'.op = "alloc" /\ last'.how = "recycled") =>
            \E m \in QueuedChunks(allocation_queue) :
                /\ m.address + page_size = last'.ret
                /\ m \notin QueuedChunks(allocation_queue')]_vars

\* an alloc has returned a pointer while a freed allocation was in the table
C24_Witness ==
    /\ last.op = "alloc"
    /\ last.ret # 0
    /\ \E p \in FreedKeys : p # last.ret


\* the chunks of the table and of the freelist
TableChunks == {allocations[p] : p \in DOMAIN allocations}

\* the number of places, table entries and freelist entries, that hold a chunk
\* with the region base base
Places(base) ==
    Cardinality({p \in DOMAIN allocations : allocations[p].address = base})
        + Cardinality({ki \in UNION {{<<k, i>> : i \in 1..Len(allocation_queue[k])} :
                                         k \in DOMAIN allocation_queue} :
                          allocation_queue[ki[1]][ki[2]].address = base})

\* C25: in every state reached by alloc, release and reset, a chunk, identified
\* by its region base, is in at most one place of the table and the freelist
\* together; every entry of the table is stored under region base + page_size;
\* and the regions [base, base + actual_size) of different chunks are disjoint,
\* so that two live allocations never share a user byte.
C25_ChunksDisjoint ==
    LET chunks == TableChunks \cup QueuedChunks(allocation_queue)
    IN  /\ \A m \in chunks : Places(m.address) = 1
        /\ \A p \in DOMAIN allocations : p = allocations[p].address + page_size
        /\ \A m, o \in chunks : m.address # o.address => Region(m) \cap Region(o) = {}
        /\ \A p, q \in DOMAIN allocations :
               (p # q /\ ~allocations[p].freed /\ ~allocations[q].freed) =>
                   (p..(p + allocations[p].size - 1))
                       \cap (q..(q + allocations[q].size - 1)) = {}

\* a live allocation on a recycled chunk while another chunk is on the freelist
C25_Witness ==
    /\ last.op = "alloc"
    /\ last.how = "recycled"
    /\ ~allocations[last.ret].freed
    /\ QueuedChunks(allocation_queue) # {}


\* the sum of the rounded sizes of the allocations of the table that are not freed
RECURSIVE SumActualSize(_)
SumActualSize(chunks) ==
    IF chunks = {} THEN 0
    ELSE LET m == CHOOSE m \in chunks : TRUE
         IN  m.actual_size + SumActualSize(chunks \ {m})

LiveChunks == {allocations[p] : p \in {p \in DOMAIN allocations : ~allocations[p].freed}}

\* C26: after any sequence of alloc, release and reset, the sum of the rounded
\* sizes (actual_size) of the allocations that are in the table and not freed is
\* at most asan_max_total_allocation.
C26_LiveTotalBounded ==
    SumActualSize(LiveChunks) <= options.asan_max_total_allocation


\* C27: whenever alloc returns null, for whatever cause, a failed mmap of a fresh
\* region included, total_allocation_size, current_mapping_addr, the table and
\* the freelist are as before the call.
C27_NullAllocChangesNothing ==
    [][(last'.op = "alloc" /\ last'.ret = 0 /\ ~last'.panic) =>
            UNCHANGED <<total_allocation_size, current_mapping_addr, allocations,
                        allocation_queue>>]_vars


\* C28: for a CmpValues::Bytes pair, whatever the lengths of the two operands,
\* I2SRandReplace never copies from beyond the end of the counterpart: the
\* length of the window it overwrites is at most the length of the operand it
\* copies from, so that the precondition from + len <= src.len() of buffer_copy
\* holds, and the call does not panic.
C28_CopyWithinCounterpart ==
    [][I2SCall =>
            /\ mutation'.result # "Panic"
            /\ \A idx \in 0..(Len(Unwrap(cmps)) - 1), off \in 0..(Len(input) - 1) :
                   LET v == Unwrap(cmps)[idx + 1]
                       copy == i2s_bytes_copy(input, v, off)
                   IN  (v.kind = "Bytes" /\ copy # None) =>
                           Unwrap(copy).len <= Len(Unwrap(copy).src)]_vars


(***************************************************************************)
(* More claims about the Tokens metadata                                   *)
(***************************************************************************)
\* C29: when add_tokens_from_file returns an error, for a line without matching
\* quotes or for a hex escape that does not decode, the token list is what it was
\* before the call: no token of an earlier line of the file has been added.
C29_ErrorAddsNothing ==
    (token_call.op = "add_tokens_from_file" /\ token_call.ret \in {"IllegalArgument", "File"})
        => token_vec = token_call.before


(***************************************************************************)
(* Claims about the layout of the address space                            *)
(***************************************************************************)
\* C30: for every address a, map_to_shadow(a) is in [shadow_offset, 3 *
\* shadow_offset), the shadow region of 2 * (1 << shadow_bit) bytes from 1 <<
\* shadow_bit on; base_mapping_addr is 3 * shadow_offset, current_mapping_addr is
\* never below it and never decreases; no region handed out by alloc overlaps
\* the shadow region, and every non-null pointer alloc returns, and every pointer
\* of the table, satisfies is_managed, also after reset.
C30_ShadowApartFromMappings ==
    /\ [](/\ \A a \in 0..MaxProbe :
                 /\ map_to_shadow(a) >= shadow_offset
                 /\ map_to_shadow(a) < 3 * shadow_offset
          /\ ShadowAddrs = shadow_offset..(shadow_offset + 2 * Pow2(shadow_bit) - 1)
          /\ base_mapping_addr = 3 * shadow_offset
          /\ current_mapping_addr >= base_mapping_addr
          /\ \A m \in TableChunks \cup QueuedChunks(allocation_queue) :
                 /\ Region(m) \cap ShadowAddrs = {}
                 /\ Region(m) \subseteq base_mapping_addr..(current_mapping_addr - 1)
          /\ \A p \in DOMAIN allocations : is_managed(p)
          /\ (last.op = "alloc" /\ last.ret # 0) => is_managed(last.ret))
    /\ [][current_mapping_addr' >= current_mapping_addr]_vars

\* after a reset, alloc has returned the pointer of the first chunk again, and
\* the cursor has moved on from the base
C30_Witness ==
    /\ last.op = "alloc"
    /\ last.how = "recycled"
    /\ last.ret = base_mapping_addr + page_size
    /\ is_managed(last.ret)
    /\ current_mapping_addr > base_mapping_addr + RoundedSize(last.arg)

====
